---------------------------- MODULE Spec2Model ----------------------------
(***************************************************************************)
(* Crystal Wizards: the rules engine (cw_game.py, cw_board.py,             *)
(* cw_entities.py, new_board_layout.py), the AI turn loop (cw_ai.py) and   *)
(* the part of the main loop that drives AI turns (cw_gui.py).             *)
(*                                                                         *)
(* Names the engine calls but the sources do not define:                   *)
(*   - GameBoard.resolve_mine_with_roll (called at cw_game.py:160): the    *)
(*     board's only mining routine is GameBoard.mine_at_position, which    *)
(*     rolls its own dice; it is modelled with the caller's roll in the    *)
(*     place of the first die it rolls.                                    *)
(*   - GameBoard.get_mine_color (cw_ai.py:492): modelled by                *)
(*     GameBoard.get_mine_color_from_position.                             *)
(*   - CrystalWizardsGame.mine_white_crystal (cw_ai.py:47, cw_gui.py:879): *)
(*     no routine of the sources does this job for the game object; it is  *)
(*     modelled from the specification (section 4.3, mineWhite).           *)
(***************************************************************************)
EXTENDS Integers, Sequences, FiniteSets, TLC

-----------------------------------------------------------------------------
(* Small helpers *)

Min(a, b) == IF a <= b THEN a ELSE b

Max(a, b) == IF a >= b THEN a ELSE b

Range(s) == {s[i] : i \in 1..Len(s)}

\* With(e, LAMBDA x : B) is B with the value of e for x
With(v, Op(_)) == Op(v)

RECURSIVE SeqSum(_)
SeqSum(s) == IF s = <<>> THEN 0 ELSE Head(s) + SeqSum(Tail(s))

\* s without its i-th element (list.pop(i) / list.remove(x) at index i)
RemoveAt(s, i) == SubSeq(s, 1, i - 1) \o SubSeq(s, i + 1, Len(s))

\* index of the first occurrence of x in s, 0 when absent (list.index)
IndexOf(s, x) ==
    IF \E i \in 1..Len(s) : s[i] = x
    THEN CHOOSE i \in 1..Len(s) : s[i] = x /\ \A j \in 1..(i - 1) : s[j] # x
    ELSE 0

-----------------------------------------------------------------------------
(* Program constants *)

max_actions_per_turn == 3

max_crystals == 6

max_health == 6

MineCap == 9

\* the cards dealt to a wizard (cw_game.py:94): what its hand and its laid-down
\* area hold together
CardCapacity == 3

MineColors == <<"red", "blue", "green", "yellow">>

ColorOrder == <<"red", "blue", "green", "yellow", "white">>

Colors == Range(ColorOrder)

\* iteration order of a card's cost dict (cw_entities.py:499-522)
KeyOrder == <<"red", "blue", "green", "yellow", "wild">>

Keys == Range(KeyOrder)

ZeroCrystals == [c \in Colors |-> 0]

ZeroKeys == [k \in Keys |-> 0]

\* sum(d.values()) of a color-keyed dict
Total(d) == d["red"] + d["blue"] + d["green"] + d["yellow"] + d["white"]

\* sum(d.values()) of a cost-keyed dict
KeyTotal(d) == d["red"] + d["blue"] + d["green"] + d["yellow"] + d["wild"]

-----------------------------------------------------------------------------
(* The board (new_board_layout.py, cw_board.py) *)

HexName == <<"hex_0", "hex_1", "hex_2", "hex_3", "hex_4", "hex_5",
             "hex_6", "hex_7", "hex_8", "hex_9", "hex_10", "hex_11">>

Hex(i) == HexName[i + 1]

get_outer_ring_positions == [i \in 1..12 |-> Hex(i - 1)]

Hexes == Range(HexName)

Rects == {"rect_north", "rect_south", "rect_east", "rect_west"}

MinePositions == {"mine_north", "mine_south", "mine_east", "mine_west"}

Positions == {"center"} \cup Rects \cup Hexes \cup MinePositions

rect_to_hex_mapping ==
    [r \in Rects |->
        CASE r = "rect_north" -> <<8, 9, 10>>
          [] r = "rect_east"  -> <<11, 0, 1>>
          [] r = "rect_south" -> <<2, 3, 4>>
          [] r = "rect_west"  -> <<5, 6, 7>>]

mine_to_hex_mapping ==
    [m \in MinePositions |->
        CASE m = "mine_north" -> 9
          [] m = "mine_east"  -> 0
          [] m = "mine_south" -> 3
          [] m = "mine_west"  -> 6]

HexIndex(p) == CHOOSE i \in 0..11 : Hex(i) = p

RectOfHex(i) == CHOOSE r \in Rects : i \in Range(rect_to_hex_mapping[r])

\* adjacency lists in which no outer tile lists its mine
connections_without_way_back ==
    [p \in Positions |->
        IF p = "center"
        THEN <<"rect_north", "rect_south", "rect_east", "rect_west">>
        ELSE IF p \in Rects
        THEN <<"center">> \o [j \in 1..3 |-> Hex(rect_to_hex_mapping[p][j])]
        ELSE IF p \in MinePositions
        THEN <<Hex(mine_to_hex_mapping[p])>>
        ELSE <<Hex((HexIndex(p) + 11) % 12), Hex((HexIndex(p) + 1) % 12),
               RectOfHex(HexIndex(p))>>]

\* NewBoardLayout.create_clean_connections: the adjacency lists, in the
\* order the code builds them
connections ==
    [p \in Positions |->
        IF p = "center"
        THEN <<"rect_north", "rect_south", "rect_east", "rect_west">>
        ELSE IF p \in Rects
        THEN <<"center">> \o [j \in 1..3 |-> Hex(rect_to_hex_mapping[p][j])]
        ELSE IF p \in MinePositions
        THEN <<Hex(mine_to_hex_mapping[p])>>
        ELSE LET i == HexIndex(p)
                 ring == <<Hex((i + 11) % 12), Hex((i + 1) % 12), RectOfHex(i)>>
                 ms == {m \in MinePositions : mine_to_hex_mapping[m] = i}
             IN  IF ms = {} THEN ring ELSE ring \o <<CHOOSE m \in ms : TRUE>>]

get_adjacent_positions(p) == connections[p]

\* an adjacency test that accepts every position
is_adjacent_any(p1, p2) == p2 \in Positions

is_adjacent(p1, p2) == p2 \in Range(connections[p1])

\* the loop of NewBoardLayout.validate_connectivity: the positions visited
\* when the queue has run empty
RECURSIVE bfs(_, _)
bfs(visited, queue) ==
    IF queue = <<>> THEN visited
    ELSE LET current == Head(queue)
         IN  IF current \in visited THEN bfs(visited, Tail(queue))
             ELSE bfs(visited \cup {current},
                      Tail(queue) \o SelectSeq(get_adjacent_positions(current),
                                               LAMBDA adjacent :
                                                 adjacent \notin visited \cup {current}))

\* NewBoardLayout.validate_connectivity; the first key of positions is center
validate_connectivity ==
    IF Positions = {} THEN FALSE
    ELSE Cardinality(bfs({}, <<"center">>)) = Cardinality(Positions)

is_healing_springs(p) == p = "center"

is_mine(p) == p \in MinePositions

get_mine_color_from_position(p) ==
    CASE p = "mine_north" -> "yellow"
      [] p = "mine_south" -> "green"
      [] p = "mine_west"  -> "red"
      [] p = "mine_east"  -> "blue"

\* the color of each rectangle in the layout (new_board_layout.py:40-45)
rect_config ==
    [r \in Rects |->
        CASE r = "rect_north" -> "green"
          [] r = "rect_south" -> "yellow"
          [] r = "rect_east"  -> "red"
          [] r = "rect_west"  -> "blue"]

\* colored_rectangles with each color at the rectangle on its mine's side
colored_rectangles_by_side ==
    [c \in Range(MineColors) |->
        CASE c = "red"    -> "rect_west"
          [] c = "blue"   -> "rect_east"
          [] c = "green"  -> "rect_south"
          [] c = "yellow" -> "rect_north"]

colored_rectangles ==
    [c \in Range(MineColors) |->
        CASE c = "red"    -> "rect_east"
          [] c = "blue"   -> "rect_west"
          [] c = "green"  -> "rect_north"
          [] c = "yellow" -> "rect_south"]


-----------------------------------------------------------------------------
(* Wizard (cw_entities.py) : operators on a reserve dict *)

\* an add_crystals that does not look at the free space of the reserve
add_crystals_unclamped(cr, color, amount) ==
    [cr EXCEPT ![color] = @ + amount]

\* Wizard.add_crystals: the reserve after adding, clamped to the free space
add_crystals(cr, color, amount) ==
    LET current_total == Total(cr)
        space_available == max_crystals - current_total
        amount_to_add == Min(amount, space_available)
    IN  IF amount_to_add > 0
        THEN [cr EXCEPT ![color] = @ + amount_to_add]
        ELSE cr

\* remove_crystals that takes nothing from the reserve
remove_crystals_none(cr, color, amount) == [cr EXCEPT ![color] = @ - 0 * amount]

\* Wizard.remove_crystals
remove_crystals(cr, color, amount) ==
    LET amount_to_remove == Min(amount, cr[color])
    IN  [cr EXCEPT ![color] = @ - amount_to_remove]

\* can_hold_more_crystals of a reserve without a cap
can_hold_more_always(cr) == Total(cr) >= 0

can_hold_more_crystals(cr) == Total(cr) < max_crystals

get_total_crystals_for_blocking(cr) == Total(cr)

can_block_damage(cr) == get_total_crystals_for_blocking(cr) > 0

\* heal without the clamp at max_health
heal_unclamped(h, amount) == h + amount

\* Wizard.heal
heal(h, amount) == Min(max_health, h + amount)

-----------------------------------------------------------------------------
(* SpellCard (cw_entities.py) *)

\* SpellCard.__init__ : cost keys absent from the dict are kept as cost 0
NewCard(id, cost) ==
    [id |-> id, cost |-> cost, crystals_used |-> ZeroKeys,
     original_crystals_used |-> ZeroCrystals]

get_total_cost(card) == KeyTotal(card.cost)

get_damage(card) == KeyTotal(card.cost)

\* a charge test that accepts every card
is_fully_charged_any(card) == card.id = card.id

is_fully_charged(card) ==
    \A k \in Keys : ~(card.crystals_used[k] < card.cost[k])

\* the first specific-color slot, from position i of the cost order on, that
\* accepts the crystal (cw_entities.py:449-472); 0 when there is none
RECURSIVE FirstSlot(_, _, _, _, _)
FirstSlot(card, color, amount, cr, i) ==
    IF i > Len(KeyOrder) THEN 0
    ELSE LET target_color == KeyOrder[i]
             needed == card.cost[target_color] - card.crystals_used[target_color]
             to_use == Min(amount, needed)
         IN  IF target_color = "wild" \/ card.cost[target_color] = 0
                \/ card.crystals_used[target_color] >= card.cost[target_color]
             THEN FirstSlot(card, color, amount, cr, i + 1)
             ELSE IF color = target_color /\ cr[color] >= to_use THEN i
             ELSE IF color = "white" /\ cr["white"] >= to_use THEN i
             ELSE FirstSlot(card, color, amount, cr, i + 1)

\* a wild slot that takes a crystal of any color
WildAcceptsAny(card, color, amount, cr, wcolor) ==
    /\ wcolor \in Range(MineColors)
    /\ card.cost["wild"] > 0
    /\ card.crystals_used["wild"] < card.cost["wild"]
    /\ cr[color] >= Min(amount, card.cost["wild"] - card.crystals_used["wild"])

\* the slot a crystal may fill: wild takes the wizard's own color or white
WildAccepts(card, color, amount, cr, wcolor) ==
    /\ color = wcolor \/ color = "white"
    /\ card.cost["wild"] > 0
    /\ card.crystals_used["wild"] < card.cost["wild"]
    /\ cr[color] >= Min(amount, card.cost["wild"] - card.crystals_used["wild"])

\* add_crystals that puts every crystal offered on the wild slot
card_add_crystals_unclamped(card, color, amount, cr, wcolor) ==
    IF cr[color] >= amount
    THEN [ok |-> TRUE,
          card |-> [card EXCEPT !.crystals_used["wild"] = @ + amount,
                                !.original_crystals_used[color] = @ + amount],
          crystals |-> remove_crystals(cr, color, amount)]
    ELSE [ok |-> FALSE, card |-> card, crystals |-> cr]

\* add_crystals that fills the slot without recording the original type
card_add_crystals_unrecorded(card, color, amount, cr, wcolor) ==
    IF WildAccepts(card, color, amount, cr, wcolor)
    THEN LET to_use == Min(amount, card.cost["wild"] - card.crystals_used["wild"])
         IN  [ok |-> TRUE,
              card |-> [card EXCEPT !.crystals_used["wild"] = @ + to_use],
              crystals |-> remove_crystals(cr, color, to_use)]
    ELSE LET i == FirstSlot(card, color, amount, cr, 1)
         IN  IF i = 0
             THEN [ok |-> FALSE, card |-> card, crystals |-> cr]
             ELSE LET k == KeyOrder[i]
                      to_use == Min(amount, card.cost[k] - card.crystals_used[k])
                  IN  [ok |-> TRUE,
                       card |-> [card EXCEPT !.crystals_used[k] = @ + to_use],
                       crystals |-> remove_crystals(cr, color, to_use)]

\* SpellCard.add_crystals: [ok, card, crystals] after charging card with
\* amount crystals of color from the reserve cr of a wizard of color wcolor
card_add_crystals(card, color, amount, cr, wcolor) ==
    IF WildAccepts(card, color, amount, cr, wcolor)
    THEN LET to_use == Min(amount, card.cost["wild"] - card.crystals_used["wild"])
         IN  [ok |-> TRUE,
              card |-> [card EXCEPT !.crystals_used["wild"] = @ + to_use,
                                    !.original_crystals_used[color] = @ + to_use],
              crystals |-> remove_crystals(cr, color, to_use)]
    ELSE LET i == FirstSlot(card, color, amount, cr, 1)
         IN  IF i = 0
             THEN [ok |-> FALSE, card |-> card, crystals |-> cr]
             ELSE LET k == KeyOrder[i]
                      to_use == Min(amount, card.cost[k] - card.crystals_used[k])
                  IN  [ok |-> TRUE,
                       card |-> [card EXCEPT !.crystals_used[k] = @ + to_use,
                                             !.original_crystals_used[color] = @ + to_use],
                       crystals |-> remove_crystals(cr, color, to_use)]

-----------------------------------------------------------------------------
(* GameBoard occupancy (cw_board.py) : the dict wizards_on_board *)

get_wizard_at_position(wob, pos) ==
    IF pos \in DOMAIN wob THEN wob[pos] ELSE <<>>

add_wizard_to_position(wob, pos, w) ==
    LET old == IF pos \in DOMAIN wob THEN wob[pos] ELSE <<>>
        new == IF w \in Range(old) THEN old ELSE Append(old, w)
    IN  [p \in (DOMAIN wob) \cup {pos} |-> IF p = pos THEN new ELSE wob[p]]

\* remove_wizard_from_position that keeps the key of a tile it has emptied
remove_wizard_keeping_tile(wob, pos, w) ==
    IF pos \in DOMAIN wob /\ w \in Range(wob[pos])
    THEN [wob EXCEPT ![pos] = RemoveAt(wob[pos], IndexOf(wob[pos], w))]
    ELSE wob

remove_wizard_from_position(wob, pos, w) ==
    IF pos \in DOMAIN wob /\ w \in Range(wob[pos])
    THEN LET new == RemoveAt(wob[pos], IndexOf(wob[pos], w))
         IN  IF new = <<>>
             THEN [p \in (DOMAIN wob) \ {pos} |-> wob[p]]
             ELSE [wob EXCEPT ![pos] = new]
    ELSE wob

\* GameBoard.has_crystals_at_position
has_crystals_at_position(g, pos) ==
    IF pos \in Hexes /\ g.white_crystals[pos] > 0 THEN TRUE
    ELSE IF is_mine(pos) THEN g.mines[get_mine_color_from_position(pos)] > 0
    ELSE pos = "center"

-----------------------------------------------------------------------------
(* The state of the program *)

VARIABLES
    players,               \* CrystalWizardsGame.players: the active wizards, in seating order
    current_player_index,  \* 0-based index into players
    current_actions,
    moves_used,
    mines_used,
    spells_cast,
    game_over,
    winner,                \* a wizard, or 0 for None
    health,                \* Wizard.health of every wizard
    crystals,              \* Wizard.crystals of every wizard
    location,              \* Wizard.location of every wizard
    hand,                  \* Wizard.hand
    cards_laid_down,       \* Wizard.cards_laid_down
    mines,                 \* GameBoard.mines[color]['crystals']
    white_crystals,        \* GameBoard.white_crystals
    wizards_on_board,      \* GameBoard.wizards_on_board
    cards,                 \* SpellCardDeck.cards (the draw pile, top at the end)
    discarded,             \* SpellCardDeck.discarded
    kind,                  \* "human", or the difficulty of an AIWizard
    turn_plan,             \* BaseAI.turn_plan of every AI wizard
    ai_pc,                 \* where the AI turn of the main loop stands
    ai_i,                  \* index of the next planned action to execute
    ai_turn_started,       \* GameGUI.ai_turn_start_time != 0
    ai_turn_executed,      \* GameGUI.ai_turn_executed
    crashed,               \* an exception left the main loop
    steps,                 \* number of operations performed so far
    last                   \* the last engine call: its arguments and its result

gameVars == <<players, current_player_index, current_actions, moves_used,
              mines_used, spells_cast, game_over, winner, health, crystals,
              location, hand, cards_laid_down, mines, white_crystals,
              wizards_on_board, cards, discarded>>

aiVars == <<turn_plan, ai_pc, ai_i, ai_turn_started, ai_turn_executed>>

vars == <<gameVars, kind, aiVars, crashed, steps, last>>

\* the wizards by seat: wizard w has color WColor[w]
WColor == <<"red", "blue", "green", "yellow">>

\* the game object as one value; warned counts the crystals a warning of
\* the action log reports lost, hits lists the targets a cast has damaged
G ==
    [players |-> players, current_player_index |-> current_player_index,
     current_actions |-> current_actions, moves_used |-> moves_used,
     mines_used |-> mines_used, spells_cast |-> spells_cast,
     game_over |-> game_over, winner |-> winner, health |-> health,
     crystals |-> crystals, location |-> location, hand |-> hand,
     cards_laid_down |-> cards_laid_down, mines |-> mines,
     white_crystals |-> white_crystals, wizards_on_board |-> wizards_on_board,
     cards |-> cards, discarded |-> discarded, kind |-> kind, warned |-> 0, hits |-> <<>>]

SetGame(g) ==
    /\ players' = g.players
    /\ current_player_index' = g.current_player_index
    /\ current_actions' = g.current_actions
    /\ moves_used' = g.moves_used
    /\ mines_used' = g.mines_used
    /\ spells_cast' = g.spells_cast
    /\ game_over' = g.game_over
    /\ winner' = g.winner
    /\ health' = g.health
    /\ crystals' = g.crystals
    /\ location' = g.location
    /\ hand' = g.hand
    /\ cards_laid_down' = g.cards_laid_down
    /\ mines' = g.mines
    /\ white_crystals' = g.white_crystals
    /\ wizards_on_board' = g.wizards_on_board
    /\ cards' = g.cards
    /\ discarded' = g.discarded

-----------------------------------------------------------------------------
(* CrystalWizardsGame (cw_game.py) *)

get_current_player(g) == g.players[g.current_player_index + 1]

\* the test of cw_gui.py:722: an AI wizard is to play
IsAITurn(g) == ~g.game_over /\ g.kind[get_current_player(g)] # "human"

can_move(g) ==
    g.moves_used < 3 /\ g.current_actions < max_actions_per_turn

\* a can_mine without the cap of two mines a turn
can_mine_uncapped(g) == g.current_actions < max_actions_per_turn

can_mine(g) ==
    g.mines_used < 2 /\ g.current_actions < max_actions_per_turn

can_cast_spell(g) ==
    g.spells_cast < 1 /\ g.current_actions < max_actions_per_turn

\* move_player with a refused move that still costs an action
move_player_charged(g, w, target_position) ==
    IF ~can_move(g) \/ ~is_adjacent(g.location[w], target_position)
    THEN [ok |-> FALSE, g |-> [g EXCEPT !.current_actions = Min(@ + 1, max_actions_per_turn)]]
    ELSE [ok |-> TRUE,
          g |-> [g EXCEPT !.wizards_on_board =
                              add_wizard_to_position(
                                  remove_wizard_from_position(@, g.location[w], w),
                                  target_position, w),
                          !.location[w] = target_position,
                          !.moves_used = @ + 1,
                          !.current_actions = @ + 1]]

\* CrystalWizardsGame.move_player : [ok, g]
move_player(g, w, target_position) ==
    IF ~can_move(g) THEN [ok |-> FALSE, g |-> g]
    ELSE IF ~is_adjacent(g.location[w], target_position) THEN [ok |-> FALSE, g |-> g]
    ELSE LET old_location == g.location[w]
             wob1 == remove_wizard_from_position(g.wizards_on_board, old_location, w)
             wob2 == add_wizard_to_position(wob1, target_position, w)
         IN  [ok |-> TRUE,
              g |-> [g EXCEPT !.wizards_on_board = wob2,
                              !.location[w] = target_position,
                              !.moves_used = @ + 1,
                              !.current_actions = @ + 1]]

\* one color of CrystalWizardsGame.return_crystals_to_board
ReturnColor(g, color, amount) ==
    IF amount <= 0 THEN g
    ELSE IF color # "white"
    THEN LET old_amount == g.mines[color]
             space_available == MineCap - old_amount
             actual_returned == Min(amount, space_available)
             g1 == IF actual_returned > 0
                   THEN [g EXCEPT !.mines[color] = old_amount + actual_returned]
                   ELSE g
         IN  IF actual_returned < amount
             THEN [g1 EXCEPT !.warned = @ + (amount - actual_returned)]
             ELSE g1
    ELSE \* 'white' is not a key of GameBoard.mines (cw_board.py:46-51)
         g

RECURSIVE ReturnFrom(_, _, _)
ReturnFrom(g, crystals_used, i) ==
    IF i > Len(ColorOrder) THEN g
    ELSE ReturnFrom(ReturnColor(g, ColorOrder[i], crystals_used[ColorOrder[i]]),
                    crystals_used, i + 1)

\* CrystalWizardsGame.return_crystals_to_board
return_crystals_to_board(g, crystals_used) == ReturnFrom(g, crystals_used, 1)

\* eliminate_player that leaves the wizard on its tile
eliminate_player_on_board(g, p) ==
    With(return_crystals_to_board(g, g.crystals[p]),
         LAMBDA g2 :
            LET player_index == IndexOf(g2.players, p) - 1
                rest == RemoveAt(g2.players, player_index + 1)
                cpi == g2.current_player_index
            IN  [g2 EXCEPT !.players = rest,
                           !.current_player_index =
                               IF player_index < cpi THEN cpi - 1
                               ELSE IF cpi >= Len(rest) /\ Len(rest) > 0 THEN 0
                               ELSE cpi])

\* eliminate_player that does not shift the index when an earlier seat leaves
eliminate_player_no_shift(g, p) ==
    With([return_crystals_to_board(g, g.crystals[p]) EXCEPT
              !.wizards_on_board = remove_wizard_from_position(@, g.location[p], p)],
         LAMBDA g2 :
            LET rest == RemoveAt(g2.players, IndexOf(g2.players, p))
                cpi == g2.current_player_index
            IN  [g2 EXCEPT !.players = rest,
                           !.current_player_index =
                               IF cpi >= Len(rest) /\ Len(rest) > 0 THEN 0 ELSE cpi])

\* eliminate_player that leaves current_player_index as it was
eliminate_player_index_kept(g, p) ==
    With([return_crystals_to_board(g, g.crystals[p]) EXCEPT
              !.wizards_on_board = remove_wizard_from_position(@, g.location[p], p)],
         LAMBDA g2 : [g2 EXCEPT !.players = RemoveAt(@, IndexOf(@, p))])

\* CrystalWizardsGame.eliminate_player
eliminate_player(g, p) ==
    With([return_crystals_to_board(g, g.crystals[p]) EXCEPT
              !.wizards_on_board = remove_wizard_from_position(@, g.location[p], p)],
         LAMBDA g2 :
            IF p \in Range(g2.players)
            THEN LET player_index == IndexOf(g2.players, p) - 1
                     rest == RemoveAt(g2.players, player_index + 1)
                     cpi == g2.current_player_index
                 IN  [g2 EXCEPT !.players = rest,
                                !.current_player_index =
                                    IF player_index < cpi THEN cpi - 1
                                    ELSE IF cpi >= Len(rest) /\ Len(rest) > 0 THEN 0
                                    ELSE cpi]
            ELSE g2)

\* check_game_over that never declares the game over
check_game_over_never(g) == [g EXCEPT !.game_over = FALSE]

\* CrystalWizardsGame.check_game_over
check_game_over(g) ==
    IF Len(g.players) <= 1
    THEN [g EXCEPT !.game_over = TRUE,
                   !.winner = IF g.players # <<>> THEN g.players[1] ELSE 0]
    ELSE g

\* end_turn that forgets to reset the moves of the turn
end_turn_keeps_moves(g) ==
    LET g1 == [g EXCEPT !.current_actions = 0, !.mines_used = 0, !.spells_cast = 0]
    IN  IF Len(g1.players) > 0
        THEN [g1 EXCEPT !.current_player_index = (@ + 1) % Len(g1.players)]
        ELSE g1

\* CrystalWizardsGame.end_turn
end_turn(g) ==
    LET g1 == [g EXCEPT !.current_actions = 0, !.moves_used = 0,
                        !.mines_used = 0, !.spells_cast = 0]
    IN  IF Len(g1.players) > 0
        THEN [g1 EXCEPT !.current_player_index = (@ + 1) % Len(g1.players)]
        ELSE g1

\* random.shuffle: the pile in the given order of its places
shuffle(pile, order) == [i \in 1..Len(pile) |-> pile[order[i]]]

\* the orders random.shuffle may leave a pile of n cards in
Orders(n) == {f \in [1..n -> 1..n] : \A i, j \in 1..n : f[i] = f[j] => i = j}

\* a draw that copies the discard pile and forgets to clear it
draw_card_keeping_discards(g, order) ==
    LET g1 == IF g.cards = <<>> /\ g.discarded # <<>>
              THEN [g EXCEPT !.cards = shuffle(g.discarded, order)]
              ELSE g
    IN  IF g1.cards # <<>>
        THEN [card |-> <<g1.cards[Len(g1.cards)]>>,
              g |-> [g1 EXCEPT !.cards = SubSeq(@, 1, Len(@) - 1)]]
        ELSE [card |-> <<>>, g |-> g1]

\* SpellCardDeck.draw_card : [card, g], card = <<>> for None; order is the
\* order the shuffle leaves a refilled draw pile in
draw_card_shuffled(g, order) ==
    LET g1 == IF g.cards = <<>> /\ g.discarded # <<>>
              THEN [g EXCEPT !.cards = shuffle(g.discarded, order),
                             !.discarded = <<>>]
              ELSE g
    IN  IF g1.cards # <<>>
        THEN [card |-> <<g1.cards[Len(g1.cards)]>>,
              g |-> [g1 EXCEPT !.cards = SubSeq(@, 1, Len(@) - 1)]]
        ELSE [card |-> <<>>, g |-> g1]

\* SpellCardDeck.draw_card in a game: discard_card has no caller, the
\* discard pile stays empty and the draw never shuffles
draw_card(g) == draw_card_shuffled(g, [i \in 1..Len(g.discarded) |-> i])

-----------------------------------------------------------------------------
(* Mining *)

\* the dice a wizard without choose_blood_magic_dice gets (cw_board.py:280-291):
\* <<mine_die, health_die>>
BloodMagicDice(die1, die2, mine_crystals) ==
    IF die1 <= mine_crystals /\ die2 <= mine_crystals
    THEN <<Max(die1, die2), Min(die1, die2)>>
    ELSE IF die1 <= mine_crystals THEN <<die1, die2>>
    ELSE IF die2 <= mine_crystals THEN <<die2, die1>>
    ELSE <<Max(die1, die2), Min(die1, die2)>>

\* GameBoard.mine_at_position with the dice given: roll is the die of the
\* hot springs or of the mine, die2 the second die of blood magic, tp the
\* outer tile random.choice picks.  [found, gained, teleport, g]; found is
\* FALSE for the result None, teleport is "" for None
mine_at_position(g, position, w, roll, die2, tp) ==
    IF position = "center"
    THEN [found |-> TRUE, gained |-> ZeroCrystals, teleport |-> tp,
          g |-> [g EXCEPT !.health[w] = heal(@, roll)]]
    ELSE IF is_mine(position)
    THEN LET mine_color == get_mine_color_from_position(position)
             mine_crystals == g.mines[mine_color]
             use_blood_magic == WColor[w] = mine_color
             dice == IF use_blood_magic
                     THEN BloodMagicDice(roll, die2, mine_crystals)
                     ELSE <<roll, 0>>
             mine_roll == dice[1]
             g1 == IF use_blood_magic
                   THEN [g EXCEPT !.health[w] = heal(@, dice[2])]
                   ELSE g
         IN  IF mine_crystals <= 0
             THEN [found |-> FALSE, gained |-> ZeroCrystals, teleport |-> "", g |-> g]
             ELSE IF mine_roll <= mine_crystals
             THEN [found |-> TRUE,
                   gained |-> [ZeroCrystals EXCEPT ![mine_color] = mine_roll],
                   teleport |-> colored_rectangles[mine_color],
                   g |-> [g1 EXCEPT !.mines[mine_color] = @ - mine_roll]]
             ELSE [found |-> FALSE, gained |-> ZeroCrystals, teleport |-> "", g |-> g1]
    ELSE IF position \in Hexes /\ g.white_crystals[position] > 0
    THEN [found |-> TRUE, gained |-> [ZeroCrystals EXCEPT !["white"] = 1],
          teleport |-> "",
          g |-> [g EXCEPT !.white_crystals[position] = @ - 1]]
    ELSE [found |-> FALSE, gained |-> ZeroCrystals, teleport |-> "", g |-> g]

\* player.add_crystals(color, amount) for every item of crystals_gained
RECURSIVE AddGained(_, _, _)
AddGained(cr, gained, i) ==
    IF i > Len(ColorOrder) THEN cr
    ELSE AddGained(IF gained[ColorOrder[i]] > 0
                   THEN add_crystals(cr, ColorOrder[i], gained[ColorOrder[i]])
                   ELSE cr,
                   gained, i + 1)

\* CrystalWizardsGame.resolve_mine_with_roll : [ok, g]
resolve_mine_with_roll(g, w, position, roll_result, die2, tp) ==
    IF ~can_mine(g) THEN [ok |-> FALSE, g |-> g]
    ELSE With(mine_at_position(g, position, w, roll_result, die2, tp),
              LAMBDA mine_result :
                IF mine_result.found
                THEN With([mine_result.g EXCEPT
                              !.crystals[w] = AddGained(@, mine_result.gained, 1)],
                          LAMBDA g2 :
                            LET teleport_position == mine_result.teleport
                                g3 == IF teleport_position # ""
                                      THEN [g2 EXCEPT
                                              !.wizards_on_board =
                                                  add_wizard_to_position(
                                                      remove_wizard_from_position(
                                                          @, g2.location[w], w),
                                                      teleport_position, w),
                                              !.location[w] = teleport_position]
                                      ELSE g2
                            IN  [ok |-> TRUE,
                                 g |-> [g3 EXCEPT !.mines_used = @ + 1,
                                                  !.current_actions = @ + 1]])
                ELSE [ok |-> FALSE,
                      g |-> [mine_result.g EXCEPT !.mines_used = @ + 1,
                                                  !.current_actions = @ + 1]])

\* CrystalWizardsGame.mine_white_crystal : [res, g], res one of "True",
\* "False", "reserve_full" (the sentinel cw_gui.py:880 tests for)
mine_white_crystal(g, w, position) ==
    IF ~can_mine(g) THEN [res |-> "False", g |-> g]
    ELSE IF ~(position \in Hexes /\ g.white_crystals[position] > 0)
    THEN [res |-> "False", g |-> g]
    ELSE IF ~can_hold_more_crystals(g.crystals[w])
    THEN [res |-> "reserve_full", g |-> g]
    ELSE [res |-> "True",
          g |-> [g EXCEPT !.white_crystals[position] = @ - 1,
                          !.crystals[w] = add_crystals(@, "white", 1),
                          !.mines_used = @ + 1,
                          !.current_actions = @ + 1]]

-----------------------------------------------------------------------------
(* Blocking (cw_entities.py, cw_gui.py) *)

\* spend up to remaining crystals of the reserve cr, color by color in the
\* given order: [crystals, spent]
RECURSIVE SpendInOrder(_, _, _, _, _)
SpendInOrder(cr, spent, order, remaining_to_spend, i) ==
    IF i > Len(order) \/ remaining_to_spend <= 0
    THEN [crystals |-> cr, spent |-> spent]
    ELSE LET color == order[i]
             available == cr[color]
             to_spend == Min(remaining_to_spend, available)
         IN  IF to_spend > 0
             THEN SpendInOrder([cr EXCEPT ![color] = @ - to_spend],
                               [spent EXCEPT ![color] = to_spend],
                               order, remaining_to_spend - to_spend, i + 1)
             ELSE SpendInOrder(cr, spent, order, remaining_to_spend, i + 1)

\* Wizard._spend_crystals_normal_priority
NormalPriority == <<"red", "blue", "green", "yellow", "white">>

\* an order that spends the attacker's color first
AttackerFirstPriority(attacker_color) ==
    <<attacker_color>> \o SelectSeq(MineColors, LAMBDA c : c # attacker_color)
        \o <<"white">>

\* the order of cw_entities.py:110-137: the other colors, white, then the
\* attacker's color
AvoidAttackerPriority(attacker_color) ==
    SelectSeq(MineColors, LAMBDA c : c # attacker_color)
        \o <<"white">> \o <<attacker_color>>

\* the disposition of spent blocking crystals (cw_entities.py:146-180 and
\* cw_gui.py:190-224): the attacker's color goes to the attacker while its
\* reserve has room, the rest to the board
DistributeSpent(g, crystals_spent, attacker) ==
    LET attacker_color == WColor[attacker]
        amount == crystals_spent[attacker_color]
        attacker_total == Total(g.crystals[attacker])
        space_available == Max(0, 6 - attacker_total)
        crystals_to_give == IF amount > 0 THEN Min(amount, space_available) ELSE 0
        excess == amount - crystals_to_give
        crystals_to_board == [crystals_spent EXCEPT ![attacker_color] = excess]
        g1 == IF crystals_to_give > 0
              THEN [g EXCEPT !.crystals[attacker][attacker_color] = @ + crystals_to_give]
              ELSE g
    IN  return_crystals_to_board(g1, crystals_to_board)

\* Wizard.spend_crystals_for_blocking for an AIWizard: [blocked, g]
spend_crystals_for_blocking(g, t, amount, attacker) ==
    IF amount <= 0 THEN [blocked |-> 0, g |-> g]
    ELSE LET crystals_to_spend == Min(amount, get_total_crystals_for_blocking(g.crystals[t]))
             order == IF g.kind[t] \in {"medium", "hard"}
                      THEN AvoidAttackerPriority(WColor[attacker])
                      ELSE NormalPriority
             sp == SpendInOrder(g.crystals[t], ZeroCrystals, order, crystals_to_spend, 1)
             g1 == [g EXCEPT !.crystals[t] = sp.crystals]
         IN  [blocked |-> crystals_to_spend, g |-> DistributeSpent(g1, sp.spent, attacker)]

\* crystals still missing on the unfinished cards of a list (cw_entities.py:248-252)
RECURSIVE NeededForSpells(_)
NeededForSpells(cs) ==
    IF cs = <<>> THEN 0
    ELSE (IF ~is_fully_charged(Head(cs))
          THEN KeyTotal(Head(cs).cost) - KeyTotal(Head(cs).crystals_used)
          ELSE 0) + NeededForSpells(Tail(cs))

\* Wizard._calculate_ai_blocking_amount; rnd is the draw of random.randint
calculate_ai_blocking_amount(g, t, damage, attacker, rnd) ==
    LET cr == g.crystals[t]
        available_crystals == get_total_crystals_for_blocking(cr)
        max_blockable == Min(damage, available_crystals)
    IN  IF g.kind[t] = "easy" THEN Min(rnd, max_blockable)
        ELSE LET attacker_color == WColor[attacker]
                 crystals_needed_for_spells ==
                     NeededForSpells(g.hand[t] \o g.cards_laid_down[t])
                 white_crystals_to_keep == Min(2, cr["white"])
                 crystals_to_reserve == crystals_needed_for_spells + white_crystals_to_keep
                 crystals_available_for_blocking ==
                     Max(0, available_crystals - crystals_to_reserve)
                 non_matching_crystals ==
                     (Total(cr) - cr["white"] - cr[attacker_color])
                         + Max(0, cr["white"] - white_crystals_to_keep)
                 preferred_blocking_amount == Min(damage, non_matching_crystals)
             IN  IF 10 * preferred_blocking_amount >= 8 * damage
                 THEN preferred_blocking_amount
                 ELSE Min(damage, Min(crystals_available_for_blocking, max_blockable))

\* a dialog that reports the selection as blocked and leaves the crystals
\* where they are
confirm_blocking_free(g, t, sel, attacker) == [blocked |-> Total(sel), g |-> g]

\* BlockingDialog._confirm_blocking with the selection sel: [blocked, g]
confirm_blocking(g, t, sel, attacker) ==
    IF Total(sel) > 0
    THEN LET crystals_spent == [c \in Colors |-> Min(sel[c], g.crystals[t][c])]
             total_blocked == Total(crystals_spent)
             g1 == [g EXCEPT !.crystals[t] = [c \in Colors |-> @[c] - crystals_spent[c]]]
         IN  [blocked |-> total_blocked,
              g |-> IF total_blocked > 0 THEN DistributeSpent(g1, crystals_spent, attacker)
                    ELSE g1]
    ELSE [blocked |-> 0, g |-> g]

\* the crystals of a color that lie on the board: in the mine of the color,
\* or, the white ones, on the outer tiles
CrystalsOnBoard(g, c) ==
    IF c = "white"
    THEN SeqSum([i \in 1..Len(HexName) |-> g.white_crystals[HexName[i]]])
    ELSE g.mines[c]

\* Wizard.take_damage: gui says whether a blocking dialog is available, sel is
\* what a human defender selects in it, rnd the random draw of an easy AI
take_damage(g, t, damage, gui, caster, sel, rnd) ==
    IF damage <= 0 THEN g
    ELSE With(IF can_block_damage(g.crystals[t])
              THEN IF g.kind[t] # "human"
                   THEN With(calculate_ai_blocking_amount(g, t, damage, caster, rnd),
                             LAMBDA crystals_to_use :
                                IF crystals_to_use > 0
                                THEN spend_crystals_for_blocking(g, t, crystals_to_use,
                                                                 caster)
                                ELSE [blocked |-> 0, g |-> g])
                   ELSE IF gui THEN confirm_blocking(g, t, sel, caster)
                        ELSE [blocked |-> 0, g |-> g]
              ELSE [blocked |-> 0, g |-> g],
              LAMBDA b :
                LET actual_damage == Max(0, damage - b.blocked)
                    new_health == Max(0, g.health[t] - actual_damage)
                    hit == [target |-> t, incoming |-> damage, blocked |-> b.blocked,
                            total_before |-> Total(g.crystals[t]),
                            removed |-> Total(g.crystals[t]) - Total(b.g.crystals[t]),
                            spent |-> [c \in Colors |->
                                          g.crystals[t][c] - b.g.crystals[t][c]],
                            to_attacker |-> [c \in Colors |->
                                                b.g.crystals[caster][c]
                                                    - g.crystals[caster][c]],
                            to_board |-> [c \in Colors |->
                                             CrystalsOnBoard(b.g, c)
                                                 - CrystalsOnBoard(g, c)],
                            attacker_room |-> max_crystals - Total(g.crystals[caster]),
                            eliminated |-> FALSE, reserve |-> ZeroCrystals,
                            room |-> ZeroCrystals, returned |-> ZeroCrystals,
                            warnings |-> 0,
                            health_before |-> g.health[t], health_after |-> new_health]
                IN  [b.g EXCEPT !.health[t] = new_health, !.hits = Append(@, hit)])

-----------------------------------------------------------------------------
(* Casting *)

\* the wizards of the occupancy lists of the given positions, in order,
\* without the caster (cw_game.py:205-210)
RECURSIVE TargetsAt(_, _, _)
TargetsAt(g, ps, w) ==
    IF ps = <<>> THEN <<>>
    ELSE SelectSeq(get_wizard_at_position(g.wizards_on_board, Head(ps)),
                   LAMBDA x : x # w)
            \o TargetsAt(g, Tail(ps), w)

\* a target list that includes the caster's own tile
cast_targets_own(g, w) ==
    TargetsAt(g, <<g.location[w]>> \o get_adjacent_positions(g.location[w]), w)

cast_targets(g, w) == TargetsAt(g, get_adjacent_positions(g.location[w]), w)

\* the game g2 after the elimination of target in the game g1, with the
\* record of the hit completed: the reserve the wizard left, the room of
\* the board for it, what arrived on the board and the crystals the
\* warnings of the action log count
Eliminated(g1, g2, target) ==
    [g2 EXCEPT !.hits[Len(g2.hits)] =
        [@ EXCEPT !.eliminated = TRUE,
                  !.reserve = g1.crystals[target],
                  !.room = [c \in Colors |->
                               IF c = "white"
                               THEN Len(HexName) - CrystalsOnBoard(g1, c)
                               ELSE MineCap - CrystalsOnBoard(g1, c)],
                  !.returned = [c \in Colors |->
                                   CrystalsOnBoard(g2, c) - CrystalsOnBoard(g1, c)],
                  !.warnings = g2.warned - g1.warned]]

\* the loop over the targets (cw_game.py:220-233)
RECURSIVE DamageTargets(_, _, _, _, _, _, _)
DamageTargets(g, targets, damage, gui, caster, sel, rnd) ==
    IF targets = <<>> THEN g
    ELSE LET target == Head(targets)
         IN  With(take_damage(g, target, damage, gui, caster, sel[target], rnd[target]),
                  LAMBDA g1 :
                    DamageTargets(IF g1.health[target] <= 0
                                  THEN Eliminated(g1, eliminate_player(g1, target), target)
                                  ELSE g1,
                                  Tail(targets), damage, gui, caster, sel, rnd))

\* CrystalWizardsGame.cast_spell; spell_card is a card value, found among
\* the laid-down cards by its id : [ok, g]
cast_spell(g, w, spell_card, gui, sel, rnd) ==
    IF ~can_cast_spell(g) THEN [ok |-> FALSE, g |-> g]
    ELSE IF ~(\E i \in 1..Len(g.cards_laid_down[w]) : g.cards_laid_down[w][i].id = spell_card.id)
            \/ ~is_fully_charged(spell_card)
    THEN [ok |-> FALSE, g |-> g]
    ELSE LET targets == cast_targets(g, w)
             damage == get_damage(spell_card)
             g1 == DamageTargets(g, targets, damage, gui, w, sel, rnd)
         IN  With(return_crystals_to_board(g1, spell_card.original_crystals_used),
                  LAMBDA g2 :
                    LET i == CHOOSE j \in 1..Len(g2.cards_laid_down[w]) :
                                g2.cards_laid_down[w][j].id = spell_card.id
                        g3 == [g2 EXCEPT !.cards_laid_down[w] = RemoveAt(@, i)]
                    IN  With(draw_card(g3),
                             LAMBDA d :
                                LET g4 == IF d.card # <<>>
                                          THEN [d.g EXCEPT !.hand[w] = Append(@, d.card[1])]
                                          ELSE d.g
                                    g5 == [g4 EXCEPT !.spells_cast = @ + 1,
                                                     !.current_actions = @ + 1]
                                IN  [ok |-> TRUE, g |-> check_game_over(g5)]))

-----------------------------------------------------------------------------
(* Laying down and charging cards (cw_entities.py:299-311) *)

\* lay_down_spell_card that counts the index round the hand
lay_down_spell_card_wrapping(g, w, card_index) ==
    IF g.hand[w] # <<>>
    THEN [ok |-> TRUE,
          g |-> [g EXCEPT !.hand[w] = RemoveAt(@, (card_index % Len(@)) + 1),
                          !.cards_laid_down[w] =
                              Append(@, g.hand[w][(card_index % Len(g.hand[w])) + 1])]]
    ELSE [ok |-> FALSE, g |-> g]

\* Wizard.lay_down_spell_card : [ok, g]; card_index is 0-based
lay_down_spell_card(g, w, card_index) ==
    IF 0 <= card_index /\ card_index < Len(g.hand[w])
    THEN [ok |-> TRUE,
          g |-> [g EXCEPT !.hand[w] = RemoveAt(@, card_index + 1),
                          !.cards_laid_down[w] = Append(@, g.hand[w][card_index + 1])]]
    ELSE [ok |-> FALSE, g |-> g]

\* where the card with the given id lies among the laid-down cards of w, or 0
LaidIndex(g, w, id) ==
    IF \E i \in 1..Len(g.cards_laid_down[w]) : g.cards_laid_down[w][i].id = id
    THEN CHOOSE i \in 1..Len(g.cards_laid_down[w]) : g.cards_laid_down[w][i].id = id
    ELSE 0

\* charging a laid-down card as an action of the turn's budget
charge_laid_card_as_action(g, w, id, crystal_color, amount) ==
    LET i == LaidIndex(g, w, id)
    IN  With(card_add_crystals(g.cards_laid_down[w][i], crystal_color, amount,
                               g.crystals[w], WColor[w]),
             LAMBDA r :
                [ok |-> r.ok,
                 g |-> [g EXCEPT !.cards_laid_down[w][i] = r.card,
                                 !.crystals[w] = r.crystals,
                                 !.current_actions = @ + 1]])

\* SpellCard.add_crystals on the laid-down card with the given id, with the
\* reserve of w: [ok, g]
charge_laid_card(g, w, id, crystal_color, amount) ==
    LET i == LaidIndex(g, w, id)
    IN  With(card_add_crystals(g.cards_laid_down[w][i], crystal_color, amount,
                               g.crystals[w], WColor[w]),
             LAMBDA r :
                [ok |-> r.ok,
                 g |-> [g EXCEPT !.cards_laid_down[w][i] = r.card,
                                 !.crystals[w] = r.crystals]])

\* Wizard.charge_spell_card : [ok, g]
charge_spell_card(g, w, id, crystal_color, amount) ==
    IF LaidIndex(g, w, id) # 0
    THEN charge_laid_card(g, w, id, crystal_color, amount)
    ELSE [ok |-> FALSE, g |-> g]

-----------------------------------------------------------------------------
(* Bounds of the model *)

\* operations explored from an initial state
MaxSteps == 3

-----------------------------------------------------------------------------
(* The record of the last engine call *)

NoCall ==
    [op |-> "none", who |-> 0, res |-> "", pos |-> "", card |-> 0,
     color |-> "", amount |-> 0, roll |-> 0, hits |-> <<>>, warned |-> 0]

Call(op, who, res, g) ==
    [NoCall EXCEPT !.op = op, !.who = who, !.res = res,
                   !.hits = g.hits, !.warned = g.warned]

Bool(b) == IF b THEN "True" ELSE "False"

-----------------------------------------------------------------------------
(* Operations of the human player whose turn it is (cw_gui.py:769-981) *)

CurrentWizard == players[current_player_index + 1]

\* handle_mouse_click ignores clicks when the game is over or an AI plays
HumanMayAct ==
    /\ ~crashed
    /\ ai_pc = "idle"
    /\ steps < MaxSteps
    /\ ~game_over
    /\ kind[CurrentWizard] = "human"

Step == steps' = steps + 1

\* the positions a caller offers as a move target: the adjacent ones, the
\* wizard's own tile and the hub
MoveTargets(w) ==
    Range(get_adjacent_positions(location[w])) \cup {location[w], "center"}

MovePlayer(target) ==
    /\ HumanMayAct
    /\ target \in MoveTargets(CurrentWizard)
    /\ \E r \in {move_player(G, CurrentWizard, target)} :
          /\ SetGame(r.g)
          /\ last' = [Call("move", CurrentWizard, Bool(r.ok), r.g) EXCEPT !.pos = target]
    /\ Step
    /\ UNCHANGED <<kind, aiVars, crashed>>

\* GameBoard.get_mineable_positions, as a set: the wizard's own position and
\* the adjacent ones, where they hold crystals (the hot springs always do)
get_mineable_positions(g, position) ==
    {p \in Range(get_adjacent_positions(position)) \cup {position} :
        has_crystals_at_position(g, p)}

\* the highlighted positions a click mines with a roll of the dice
\* (cw_gui.py:800, 873-897): a mine or the hot springs
roll_positions(g, w) ==
    {p \in get_mineable_positions(g, g.location[w]) : is_mine(p) \/ is_healing_springs(p)}

\* the highlighted positions a click mines without dice: an outer tile
white_positions(g, w) ==
    {p \in get_mineable_positions(g, g.location[w]) : p \in Hexes}

\* the positions a caller mines with a roll: those the window highlights and,
\* as EasyAI.try_mine does without a look at the stock (cw_ai.py:154-156),
\* the mine the wizard stands on
RollPositions(w) == roll_positions(G, w) \cup {p \in {location[w]} : is_mine(p)}

MineWithRoll(position, roll, die2, tp) ==
    /\ HumanMayAct
    /\ position \in RollPositions(CurrentWizard)
    /\ \E r \in {resolve_mine_with_roll(G, CurrentWizard, position, roll, die2, tp)} :
          /\ SetGame(r.g)
          /\ last' = [Call("mine_roll", CurrentWizard, Bool(r.ok), r.g)
                         EXCEPT !.pos = position, !.roll = roll]
    /\ Step
    /\ UNCHANGED <<kind, aiVars, crashed>>

WhitePositions(w) == white_positions(G, w)

MineWhite(position) ==
    /\ HumanMayAct
    /\ position \in WhitePositions(CurrentWizard)
    /\ \E r \in {mine_white_crystal(G, CurrentWizard, position)} :
          /\ SetGame(r.g)
          /\ last' = [Call("mine_white", CurrentWizard, r.res, r.g) EXCEPT !.pos = position]
    /\ Step
    /\ UNCHANGED <<kind, aiVars, crashed>>

LayDown(card_index) ==
    /\ HumanMayAct
    /\ \E r \in {lay_down_spell_card(G, CurrentWizard, card_index)} :
          /\ SetGame(r.g)
          /\ last' = [Call("lay_card", CurrentWizard, Bool(r.ok), r.g)
                         EXCEPT !.amount = card_index]
    /\ Step
    /\ UNCHANGED <<kind, aiVars, crashed>>

\* the cards a caller may name: those of the wizard's hand and laid-down area
OwnCards(w) == Range(hand[w]) \cup Range(cards_laid_down[w])

\* GameGUI.get_crystal_placement_click: a click on a crystal of a color the
\* wizard holds charges the selected laid-down card with one crystal
ChargeCard(card, color) ==
    /\ HumanMayAct
    /\ card \in Range(cards_laid_down[CurrentWizard])
    /\ crystals[CurrentWizard][color] > 0
    /\ \E r \in {charge_laid_card(G, CurrentWizard, card.id, color, 1)} :
          /\ SetGame(r.g)
          /\ last' = [Call("charge_card", CurrentWizard, Bool(r.ok), r.g)
                         EXCEPT !.card = card.id, !.color = color, !.amount = 1]
    /\ Step
    /\ UNCHANGED <<kind, aiVars, crashed>>

\* what a human defender can select in the blocking dialog
\* (cw_gui.py:133, 252-263): at most what it holds of each color, at most
\* min(damage, total held) in all
Selections(w, damage) ==
    {sel \in {[c \in Colors |-> CASE c = "red" -> r [] c = "blue" -> b
                                  [] c = "green" -> gr [] c = "yellow" -> y
                                  [] c = "white" -> wh] :
                r \in 0..crystals[w]["red"], b \in 0..crystals[w]["blue"],
                gr \in 0..crystals[w]["green"], y \in 0..crystals[w]["yellow"],
                wh \in 0..crystals[w]["white"]} :
        Total(sel) <= Min(damage, Total(crystals[w]))}

\* the selections and random draws a cast of the given damage may meet at
\* wizard w: a dialog only for a human target, random.randint(0,
\* max_blockable) only for an easy AI target
SelChoices(w, targets, damage) ==
    IF w \in targets /\ kind[w] = "human" THEN Selections(w, damage)
    ELSE {ZeroCrystals}

RndChoices(w, targets, damage) ==
    IF w \in targets /\ kind[w] = "easy"
    THEN 0..Min(damage, Total(crystals[w]))
    ELSE {0}

Wizards == DOMAIN kind

\* the choices of three defenders as functions of the wizard
ByWizard(a, b, c) == [w \in 1..Len(WColor) |-> IF w = 1 THEN a ELSE IF w = 2 THEN b ELSE c]

CastSpell(card, sel, rnd) ==
    /\ HumanMayAct
    /\ card \in OwnCards(CurrentWizard)
    /\ \E r \in {cast_spell(G, CurrentWizard, card, TRUE, sel, rnd)} :
          /\ SetGame(r.g)
          /\ last' = [Call("cast_spell", CurrentWizard, Bool(r.ok), r.g)
                         EXCEPT !.card = card.id, !.amount = get_damage(card)]
    /\ Step
    /\ UNCHANGED <<kind, aiVars, crashed>>

\* the end-turn button, the space key and the AI failsafe button all call
\* CrystalWizardsGame.end_turn (cw_gui.py:715, 814, 824, 988)
EndTurn ==
    /\ ~crashed
    /\ ai_pc = "idle"
    /\ steps < MaxSteps
    /\ \E g \in {end_turn(G)} :
          /\ SetGame(g)
          \* cw_gui.py:722-747 : a frame in which no AI is to play resets the flags
          /\ ai_turn_started' = (IsAITurn(g) /\ ai_turn_started)
          /\ ai_turn_executed' = (IsAITurn(g) /\ ai_turn_executed)
    /\ last' = Call("end_turn", CurrentWizard, "True", G)
    /\ Step
    /\ UNCHANGED <<kind, turn_plan, ai_pc, ai_i, crashed>>

-----------------------------------------------------------------------------
(* The AI (cw_ai.py) *)

NoAction ==
    [type |-> "none", pos |-> "", roll |-> 0, card |-> 0, color |-> "", amount |-> 0]

MoveAction(target) == [NoAction EXCEPT !.type = "move", !.pos = target]

\* a mine action with the key 'roll_result'
RollMineAction(roll) == [NoAction EXCEPT !.type = "mine", !.roll = roll]

\* a mine action with the key 'position'
WhiteMineAction(pos) == [NoAction EXCEPT !.type = "mine", !.pos = pos]

\* card is the 0-based index into the hand
LayAction(card_index) == [NoAction EXCEPT !.type = "lay_card", !.card = card_index]

ChargeAction(id, color) ==
    [NoAction EXCEPT !.type = "charge_card", !.card = id, !.color = color, !.amount = 1]

CastAction(id) == [NoAction EXCEPT !.type = "cast_spell", !.card = id]

\* CrystalWizardsGame.get_adjacent_enemies_at_position
get_adjacent_enemies_at_position(g, position, w) ==
    TargetsAt(g, get_adjacent_positions(position), w)

\* CrystalWizardsGame.get_adjacent_enemies
get_adjacent_enemies(g, w) == get_adjacent_enemies_at_position(g, g.location[w], w)

has_charged_spells(g, w) ==
    \E i \in 1..Len(g.cards_laid_down[w]) : is_fully_charged(g.cards_laid_down[w][i])

\* the first position of ps, from index i on, with the greatest score, as
\* the loops "if score > best_score" find it, starting from best_score -1
RECURSIVE BestFrom(_, _, _, _, _)
BestFrom(ps, score(_), i, best_pos, best_score) ==
    IF i > Len(ps) THEN best_pos
    ELSE IF score(ps[i]) > best_score
    THEN BestFrom(ps, score, i + 1, ps[i], score(ps[i]))
    ELSE BestFrom(ps, score, i + 1, best_pos, best_score)

\* BaseAI.get_backup_action : a sequence with the action, or <<>> for None
get_backup_action(g, w) ==
    IF can_move(g)
    THEN LET adjacent == get_adjacent_positions(g.location[w])
         IN  With(SelectSeq(adjacent, LAMBDA pos : has_crystals_at_position(g, pos)),
                  LAMBDA good : IF good # <<>> THEN <<MoveAction(good[1])>> ELSE <<>>)
    ELSE <<>>

\* EasyAI.try_cast_spell
easy_try_cast_spell(g, w) ==
    LET charged == SelectSeq(g.cards_laid_down[w], is_fully_charged)
    IN  IF charged # <<>> /\ get_adjacent_enemies(g, w) # <<>>
        THEN <<CastAction(charged[1].id)>>
        ELSE <<>>

\* EasyAI.can_eventually_afford : total_crystals >= total_cost * 0.3
can_eventually_afford(g, w, card) ==
    10 * Total(g.crystals[w]) >= 3 * get_total_cost(card)

\* EasyAI.try_lay_card
easy_try_lay_card(g, w) ==
    IF g.hand[w] # <<>>
    THEN LET ok == {i \in 1..Len(g.hand[w]) : can_eventually_afford(g, w, g.hand[w][i])}
         IN  IF ok # {}
             THEN <<LayAction((CHOOSE i \in ok : \A j \in ok : i <= j) - 1)>>
             ELSE <<LayAction(0)>>
    ELSE <<>>

\* EasyAI.try_charge_card
easy_try_charge_card(g, w) ==
    LET open == SelectSeq(g.cards_laid_down[w], LAMBDA c : ~is_fully_charged(c))
        held == SelectSeq(ColorOrder, LAMBDA c : g.crystals[w][c] > 0)
    IN  IF open # <<>> /\ held # <<>>
        THEN <<ChargeAction(open[1].id, held[1])>>
        ELSE <<>>

\* EasyAI.try_mine; r3 and r6 are the draws of randint(1, 3) and randint(1, 6)
easy_try_mine(g, w, r3, r6) ==
    LET pos == g.location[w]
    IN  IF is_healing_springs(pos) /\ g.health[w] < 4 THEN <<RollMineAction(r3)>>
        ELSE IF has_crystals_at_position(g, pos) /\ ~is_mine(pos)
        THEN <<WhiteMineAction(pos)>>
        ELSE IF is_mine(pos) /\ Total(g.crystals[w]) < 5 THEN <<RollMineAction(r6)>>
        ELSE <<>>

\* EasyAI.evaluate_position
easy_evaluate_position(g, w, pos) ==
    LET enemies_nearby == Len(get_adjacent_enemies_at_position(g, pos, w))
    IN  (IF has_crystals_at_position(g, pos) THEN 10 ELSE 0)
        + (IF g.health[w] <= 3 /\ is_healing_springs(pos) THEN 15 ELSE 0)
        + (IF enemies_nearby > 0 /\ has_charged_spells(g, w)
           THEN 8 * enemies_nearby ELSE 0)

\* EasyAI.try_move
easy_try_move(g, w) ==
    LET adjacent == get_adjacent_positions(g.location[w])
        score(pos) == easy_evaluate_position(g, w, pos)
    IN  With(BestFrom(adjacent, score, 1, "", -1),
             LAMBDA best_pos : IF best_pos # "" THEN <<MoveAction(best_pos)>> ELSE <<>>)

\* EasyAI.plan_turn
easy_plan_turn(g, w, r3, r6) ==
    LET a1 == IF can_cast_spell(g) THEN easy_try_cast_spell(g, w) ELSE <<>>
        a2 == IF Len(g.cards_laid_down[w]) = 0 /\ Total(g.crystals[w]) >= 2
              THEN easy_try_lay_card(g, w) ELSE <<>>
        a3 == easy_try_charge_card(g, w)
        a4 == IF can_mine(g) THEN easy_try_mine(g, w, r3, r6) ELSE <<>>
    IN  With(a1 \o a2 \o a3 \o a4,
             LAMBDA actions :
                With(IF can_move(g) THEN easy_try_move(g, w) ELSE <<>>,
                     LAMBDA move :
                        LET remaining_moves ==
                                Min(3, max_actions_per_turn - Len(actions))
                            moves == IF move = <<>> THEN <<>>
                                     ELSE [i \in 1..Max(0, remaining_moves) |-> move[1]]
                        IN  With(actions \o moves,
                                 LAMBDA all :
                                    SubSeq(all, 1,
                                           Min(Len(all),
                                               Max(0, max_actions_per_turn
                                                        - g.current_actions))))))

-----------------------------------------------------------------------------
(* MediumAI (cw_ai.py:203-569).  Scores that the code computes as floats   *)
(* are kept as exact multiples of 1/60: every total cost divides 60.       *)

\* MediumAI.determine_resource_priority
determine_resource_priority(g, w) ==
    LET all_cards == g.hand[w] \o g.cards_laid_down[w]
        needs(color) ==
            SeqSum([i \in 1..Len(all_cards) |->
                      (IF color \in Keys THEN all_cards[i].cost[color] ELSE 0)
                      + (IF color = WColor[w] THEN all_cards[i].cost["wild"] ELSE 0)])
    IN  [color \in Colors |->
            IF needs(color) > 0 THEN 10 + needs(color)
            ELSE IF color = WColor[w] THEN 8
            ELSE IF color = "white" THEN 6
            ELSE 3]

\* 60 * SpellCard.get_charging_progress
get_charging_progress(card) ==
    IF KeyTotal(card.cost) > 0
    THEN (60 * KeyTotal(card.crystals_used)) \div KeyTotal(card.cost)
    ELSE 60

\* MediumAI.determine_spell_priority : the index of the card among the
\* laid-down cards, 0 for None
determine_spell_priority(g, w) ==
    LET laid == g.cards_laid_down[w]
        open == SelectSeq([i \in 1..Len(laid) |-> i],
                          LAMBDA i : ~is_fully_charged(laid[i]))
        score(i) == 600 + 20 * get_charging_progress(laid[i])
    IN  BestFrom(open, score, 1, 0, -1)

\* MediumAI.find_nearest_healing_springs : "" for None
find_nearest_healing_springs(g, w) ==
    LET hs == SelectSeq(get_adjacent_positions(g.location[w]), is_healing_springs)
    IN  IF hs # <<>> THEN hs[1] ELSE ""

\* MediumAI.handle_emergency
handle_emergency(g, w, r3) ==
    IF g.health[w] <= 2 /\ is_healing_springs(g.location[w]) /\ can_mine(g)
    THEN <<RollMineAction(r3)>>
    ELSE IF g.health[w] <= 2 /\ can_move(g) /\ find_nearest_healing_springs(g, w) # ""
    THEN <<MoveAction(find_nearest_healing_springs(g, w))>>
    ELSE <<>>

\* MediumAI.handle_offensive
handle_offensive(g, w) ==
    IF can_cast_spell(g)
    THEN With(get_adjacent_enemies(g, w),
              LAMBDA enemies :
                LET laid == g.cards_laid_down[w]
                    charged == SelectSeq([i \in 1..Len(laid) |-> i],
                                         LAMBDA i : is_fully_charged(laid[i])
                                                       /\ enemies # <<>>)
                    score(i) == get_damage(laid[i]) * Len(enemies)
                IN  With(BestFrom(charged, score, 1, 0, 0),
                         LAMBDA best_spell :
                            IF best_spell # 0 THEN <<CastAction(laid[best_spell].id)>>
                            ELSE <<>>))
    ELSE <<>>

\* MediumAI.calculate_affordability : usable crystals, before the division
usable_crystals(g, w, card) ==
    SeqSum([i \in 1..Len(KeyOrder) |->
              IF card.cost[KeyOrder[i]] = 0 THEN 0
              ELSE IF KeyOrder[i] = "wild"
              THEN g.crystals[w][WColor[w]] + g.crystals[w]["white"]
              ELSE g.crystals[w][KeyOrder[i]] + g.crystals[w]["white"]])

\* 60 * MediumAI.evaluate_card_to_lay
evaluate_card_to_lay(g, w, card, resource_priority) ==
    LET total_cost == get_total_cost(card)
        affordability ==   \* 60 * min(1.0, usable / total_cost)
            IF total_cost = 0 THEN 60
            ELSE (60 * Min(total_cost, usable_crystals(g, w, card))) \div total_cost
        damage_per_cost == (60 * get_damage(card)) \div Max(total_cost, 1)
        matching == SeqSum([i \in 1..Len(MineColors) |->
                              resource_priority[MineColors[i]] * card.cost[MineColors[i]]])
    IN  affordability * 20 + damage_per_cost * 10 + 60 * matching

\* MediumAI.choose_best_card_to_lay : the 0-based index, -1 for None
choose_best_card_to_lay(g, w, resource_priority) ==
    LET score(i) == evaluate_card_to_lay(g, w, g.hand[w][i + 1], resource_priority)
    IN  BestFrom([i \in 1..Len(g.hand[w]) |-> i - 1], score, 1, -1, -1)

\* new_progress - original_progress of cw_ai.py:457 for a card of the given
\* total cost with used crystals on it before the simulated charge.  The
\* code subtracts two floats, and the differences of equal steps are not
\* all equal: (u+1)/t - u/t in IEEE doubles is
\*   t = 2: 0.5, 0.5                  t = 4: 0.25 four times
\*   t = 3: 0.3333333333333333 twice, then 0.33333333333333337
\*   t = 5: 0.2, 0.2, 0.19999999999999996, 0.20000000000000007,
\*          0.19999999999999996
\* The operator gives the rank of the difference among these (all > 0).
charging_efficiency(total_cost, used) ==
    CASE total_cost = 3 /\ used = 2 -> 3
      [] total_cost = 5 /\ used \in {2, 4} -> 1
      [] total_cost = 5 /\ used = 3 -> 3
      [] OTHER -> 2

\* a scoring loop that undoes its trial charges by emptying the card
ChargeSimEmptied(card, cr, wcolor, i, best_color, best_efficiency) ==
    [card |-> [card EXCEPT !.crystals_used = ZeroKeys],
     best_color |-> IF \E j \in i..Len(ColorOrder) : cr[ColorOrder[j]] > 0
                    THEN ColorOrder[CHOOSE j \in i..Len(ColorOrder) :
                                       cr[ColorOrder[j]] > 0]
                    ELSE best_color]

\* the loop of MediumAI.charge_spell_strategically over the colors from
\* position i on: calculate_charging_efficiency charges the card itself and
\* puts back only the wizard's reserve.  [card, best_color]
RECURSIVE ChargeSim(_, _, _, _, _, _)
ChargeSim(card, cr, wcolor, i, best_color, best_efficiency) ==
    IF i > Len(ColorOrder) THEN [card |-> card, best_color |-> best_color]
    ELSE LET color == ColorOrder[i]
         IN  With(card_add_crystals(card, color, 1, cr, wcolor),
                  LAMBDA r :
                    LET efficiency == IF r.ok
                                      THEN charging_efficiency(KeyTotal(card.cost),
                                                               KeyTotal(card.crystals_used))
                                      ELSE 0
                    IN  IF cr[color] > 0
                        THEN IF efficiency > best_efficiency
                             THEN ChargeSim(r.card, cr, wcolor, i + 1, color, efficiency)
                             ELSE ChargeSim(r.card, cr, wcolor, i + 1, best_color,
                                            best_efficiency)
                        ELSE ChargeSim(card, cr, wcolor, i + 1, best_color,
                                       best_efficiency))

\* MediumAI.charge_spell_strategically on the laid-down card at index i:
\* [actions, g]
charge_spell_strategically(g, w, i) ==
    LET card == g.cards_laid_down[w][i]
    IN  IF is_fully_charged(card) THEN [actions |-> <<>>, g |-> g]
        ELSE With(ChargeSim(card, g.crystals[w], WColor[w], 1, "", -1),
                  LAMBDA sim :
                    [actions |-> IF sim.best_color # ""
                                 THEN <<ChargeAction(card.id, sim.best_color)>>
                                 ELSE <<>>,
                     g |-> [g EXCEPT !.cards_laid_down[w][i] = sim.card]])

\* MediumAI.manage_spells : [actions, g]
manage_spells(g, w, resource_priority, spell_priority) ==
    With(IF Len(g.cards_laid_down[w]) < 2 /\ Total(g.crystals[w]) >= 3
         THEN choose_best_card_to_lay(g, w, resource_priority)
         ELSE -1,
         LAMBDA card_to_lay :
            With(IF spell_priority # 0
                 THEN charge_spell_strategically(g, w, spell_priority)
                 ELSE [actions |-> <<>>, g |-> g],
                 LAMBDA charge :
                    [actions |-> (IF card_to_lay # -1 THEN <<LayAction(card_to_lay)>>
                                  ELSE <<>>) \o charge.actions,
                     g |-> charge.g]))

\* MediumAI.strategic_mine
strategic_mine(g, w, resource_priority, r3, r6) ==
    LET pos == g.location[w]
    IN  IF g.health[w] <= 4 /\ is_healing_springs(pos) THEN <<RollMineAction(r3)>>
        ELSE IF has_crystals_at_position(g, pos) /\ ~is_mine(pos)
                /\ can_hold_more_crystals(g.crystals[w])
        THEN <<WhiteMineAction(pos)>>
        ELSE IF is_mine(pos)
                /\ resource_priority[get_mine_color_from_position(pos)] >= 5
                /\ can_hold_more_crystals(g.crystals[w])
        THEN <<RollMineAction(r6)>>
        ELSE <<>>

\* MediumAI.collect_resources
collect_resources(g, w, resource_priority, r3, r6) ==
    IF can_mine(g) THEN strategic_mine(g, w, resource_priority, r3, r6) ELSE <<>>

\* MediumAI.evaluate_position_strategically
evaluate_position_strategically(g, w, pos, resource_priority) ==
    With(Len(get_adjacent_enemies_at_position(g, pos, w)),
         LAMBDA enemies_in_range :
            (IF has_crystals_at_position(g, pos) THEN 15 ELSE 0)
            + (IF is_mine(pos) THEN resource_priority[get_mine_color_from_position(pos)]
               ELSE 0)
            + (IF enemies_in_range > 0
               THEN IF has_charged_spells(g, w) THEN 20 * enemies_in_range
                    ELSE 0 - 10 * enemies_in_range
               ELSE 0)
            + (IF is_healing_springs(pos) /\ g.health[w] <= 4
               THEN (6 - g.health[w]) * 5 ELSE 0))

\* MediumAI.strategic_move
strategic_move(g, w, resource_priority) ==
    LET adjacent == get_adjacent_positions(g.location[w])
        score(pos) == evaluate_position_strategically(g, w, pos, resource_priority)
    IN  With(BestFrom(adjacent, score, 1, "", -1),
             LAMBDA best_pos : IF best_pos # "" THEN <<MoveAction(best_pos)>> ELSE <<>>)

\* MediumAI.improve_position; prev_plan is self.turn_plan, the plan of the
\* wizard's previous turn
improve_position(g, w, resource_priority, prev_plan) ==
    LET remaining_moves ==
            3 - Len(SelectSeq(prev_plan, LAMBDA a : a.type = "move"))
    IN  With(IF can_move(g) THEN strategic_move(g, w, resource_priority) ELSE <<>>,
             LAMBDA move :
                IF move = <<>> THEN <<>>
                ELSE [i \in 1..Max(0, Min(remaining_moves, 2)) |-> move[1]])

\* MediumAI.plan_turn : [plan, g]; g differs from the argument by what the
\* simulated charges have left on the priority card; r3, r3b and r6 are the
\* draws of the randint calls at cw_ai.py:320, 482 and 495
medium_plan_turn(g, w, prev_plan, r3, r3b, r6) ==
    With(determine_resource_priority(g, w),
         LAMBDA resource_priority :
            LET spell_priority == determine_spell_priority(g, w)
                a1 == handle_emergency(g, w, r3)
                a2 == handle_offensive(g, w)
            IN  With(manage_spells(g, w, resource_priority, spell_priority),
                     LAMBDA m :
                        LET a4 == collect_resources(m.g, w, resource_priority, r3b, r6)
                            a5 == improve_position(m.g, w, resource_priority, prev_plan)
                        IN  With(a1 \o a2 \o m.actions \o a4 \o a5,
                                 LAMBDA all :
                                    [plan |-> SubSeq(all, 1,
                                                     Min(Len(all),
                                                         Max(0, max_actions_per_turn
                                                                  - g.current_actions))),
                                     g |-> m.g])))

-----------------------------------------------------------------------------
(* BaseAI.execute_turn and the AI part of the main loop *)

\* BaseAI.execute_action : [ok, g, call]; die2, tp and rnd are the random
\* draws the engine makes while the action runs.  An AI passes no gui to
\* cast_spell (action.get('gui') is None), so no human target gets a dialog
execute_action(g, w, action, die2, tp, rnd) ==
    CASE action.type = "move" ->
            With(move_player(g, w, action.pos),
                 LAMBDA r :
                    [ok |-> r.ok, g |-> r.g,
                     call |-> [Call("move", w, Bool(r.ok), r.g) EXCEPT !.pos = action.pos]])
      [] action.type = "mine" /\ action.roll # 0 ->
            With(resolve_mine_with_roll(g, w, g.location[w], action.roll, die2, tp),
                 LAMBDA r :
                    [ok |-> r.ok, g |-> r.g,
                     call |-> [Call("mine_roll", w, Bool(r.ok), r.g)
                                  EXCEPT !.pos = g.location[w], !.roll = action.roll]])
      [] action.type = "mine" /\ action.roll = 0 ->
            With(mine_white_crystal(g, w, action.pos),
                 LAMBDA r :
                    [ok |-> r.res # "False", g |-> r.g,
                     call |-> [Call("mine_white", w, r.res, r.g)
                                  EXCEPT !.pos = action.pos]])
      [] action.type = "lay_card" ->
            With(lay_down_spell_card(g, w, action.card),
                 LAMBDA r :
                    [ok |-> r.ok, g |-> r.g,
                     call |-> [Call("lay_card", w, Bool(r.ok), r.g)
                                  EXCEPT !.amount = action.card]])
      [] action.type = "charge_card" ->
            \* card.add_crystals on the planned card, which is still laid down:
            \* a plan never casts the card it charges
            With(charge_spell_card(g, w, action.card, action.color, action.amount),
                 LAMBDA r :
                    [ok |-> r.ok, g |-> r.g,
                     call |-> [Call("charge_card", w, Bool(r.ok), r.g)
                                  EXCEPT !.card = action.card, !.color = action.color,
                                         !.amount = action.amount]])
      [] action.type = "cast_spell" ->
            LET i == LaidIndex(g, w, action.card)
            IN  With(IF i # 0
                     THEN cast_spell(g, w, g.cards_laid_down[w][i], FALSE,
                                     [x \in 1..Len(WColor) |-> ZeroCrystals], rnd)
                     ELSE [ok |-> FALSE, g |-> g],
                     LAMBDA r :
                        [ok |-> r.ok, g |-> r.g,
                         call |-> [Call("cast_spell", w, Bool(r.ok), r.g)
                                      EXCEPT !.card = action.card,
                                             !.amount =
                                                 IF i # 0
                                                 THEN get_damage(g.cards_laid_down[w][i])
                                                 ELSE 0]])
      [] OTHER -> [ok |-> FALSE, g |-> g, call |-> NoCall]

\* one iteration of the loop of BaseAI.execute_turn (cw_ai.py:22-31) on the
\* i-th planned action
execute_planned(g, w, plan, i, die2, tp, rnd) ==
    With(execute_action(g, w, plan[i], die2, tp, rnd),
         LAMBDA r :
            With(get_backup_action(r.g, w),
                 LAMBDA backup :
                    IF r.ok \/ backup = <<>> THEN r.g
                    ELSE execute_action(r.g, w, backup[1], die2, tp, rnd).g))

\* the loop of BaseAI.execute_turn from the i-th planned action on
RECURSIVE run_plan(_, _, _, _, _, _, _)
run_plan(g, w, plan, i, die2, tp, rnd) ==
    IF i > Len(plan) \/ g.current_actions >= max_actions_per_turn THEN g
    ELSE run_plan(execute_planned(g, w, plan, i, die2, tp, rnd),
                  w, plan, i + 1, die2, tp, rnd)

\* the plan_turn of the wizard's controller: [raised, plan, g].  HardAI.plan_turn
\* starts with full_game_analysis, whose first call reaches
\* game.board.get_all_positions() (cw_ai.py:615): GameBoard has no such
\* attribute, and the next line of analyze_board_control calls
\* self.evaluate_position_control, which HardAI does not define either, so the
\* call raises AttributeError before anything is planned
plan_turn(g, w, prev_plan, r3, r3b, r6) ==
    CASE g.kind[w] = "easy" ->
            [raised |-> FALSE, plan |-> easy_plan_turn(g, w, r3, r6), g |-> g]
      [] g.kind[w] = "medium" ->
            With(medium_plan_turn(g, w, prev_plan, r3, r3b, r6),
                 LAMBDA p : [raised |-> FALSE, plan |-> p.plan, g |-> p.g])
      [] OTHER -> [raised |-> TRUE, plan |-> prev_plan, g |-> g]

-----------------------------------------------------------------------------
(* Setting up a game (cw_entities.py:488-522, cw_game.py:47-116) *)

\* the cost of the id-th card SpellCardDeck.initialize_deck appends
DeckCost(id) ==
    LET one == <<{"red"}, {"blue"}, {"green"}, {"yellow"}>>
        two == <<{"red", "blue"}, {"red", "green"}, {"red", "yellow"},
                 {"blue", "green"}, {"blue", "yellow"}, {"green", "yellow"}>>
        three == <<{"red", "blue", "green"}, {"red", "blue", "yellow"},
                   {"red", "green", "yellow"}, {"blue", "green", "yellow"}>>
        cs == IF id <= 8 THEN one[((id - 1) % 4) + 1]
              ELSE IF id <= 20 THEN two[((id - 9) % 6) + 1]
              ELSE IF id <= 28 THEN three[((id - 21) % 4) + 1]
              ELSE {"red", "blue", "green", "yellow"}
    IN  [k \in Keys |-> IF k \in cs \/ k = "wild" THEN 1 ELSE 0]

DeckSize == 32

Card(id) == NewCard(id, DeckCost(id))

\* the deal of cw_game.py:92-96 : every player in turn pops three cards
RECURSIVE Deal(_, _)
Deal(g, i) ==
    IF i > Len(g.players) THEN g
    ELSE LET w == g.players[i]
             d1 == draw_card(g)
             d2 == draw_card(d1.g)
             d3 == draw_card(d2.g)
         IN  Deal([d3.g EXCEPT !.hand[w] = d1.card \o d2.card \o d3.card], i + 1)

\* CrystalWizardsGame.initialize_game for the players of the given kinds,
\* seated in the order of WColor, with the shuffled deck as given (ids, top
\* of the pile last)
initialize_game(kinds, shuffled) ==
    LET n == Len(kinds)
        ws == 1..n
        start == [w \in ws |-> colored_rectangles[WColor[w]]]
        g0 == [players |-> [i \in 1..n |-> i],
               current_player_index |-> 0,
               current_actions |-> 0, moves_used |-> 0, mines_used |-> 0,
               spells_cast |-> 0, game_over |-> FALSE, winner |-> 0,
               health |-> [w \in ws |-> max_health],
               crystals |-> [w \in ws |-> ZeroCrystals],
               location |-> start,
               hand |-> [w \in ws |-> <<>>],
               cards_laid_down |-> [w \in ws |-> <<>>],
               mines |-> [c \in Range(MineColors) |-> MineCap],
               white_crystals |-> [h \in Hexes |-> 1],
               wizards_on_board |-> [p \in {start[w] : w \in ws} |->
                                        <<CHOOSE w \in ws : start[w] = p>>],
               cards |-> [i \in 1..Len(shuffled) |-> Card(shuffled[i])],
               discarded |-> <<>>, kind |-> kinds, warned |-> 0, hits |-> <<>>]
    IN  Deal(g0, 1)

-----------------------------------------------------------------------------
(* Openings: fixed sequences of operations played from the initial state. *)
(* A state a replay ends in is a state the program reaches by that play.  *)

NoEvent ==
    [e |-> "", pos |-> "", roll |-> 0, die2 |-> 1, tp |-> "hex_0", card |-> 0,
     color |-> "", sel |-> [x \in 1..Len(WColor) |-> ZeroCrystals],
     rnd |-> [x \in 1..Len(WColor) |-> 0], r3 |-> 1, r3b |-> 1, r6 |-> 1]

EvMove(pos) == [NoEvent EXCEPT !.e = "move", !.pos = pos]

EvMineRoll(pos, roll, die2) ==
    [NoEvent EXCEPT !.e = "mine_roll", !.pos = pos, !.roll = roll, !.die2 = die2]

EvMineWhite(pos) == [NoEvent EXCEPT !.e = "mine_white", !.pos = pos]

\* card is the 0-based index into the hand
EvLay(card_index) == [NoEvent EXCEPT !.e = "lay_card", !.card = card_index]

EvCharge(id, color) == [NoEvent EXCEPT !.e = "charge_card", !.card = id, !.color = color]

\* sel: what each human target selects in its blocking dialog
EvCast(id, sel) == [NoEvent EXCEPT !.e = "cast_spell", !.card = id, !.sel = sel]

EvEndTurn == [NoEvent EXCEPT !.e = "end_turn"]

\* the AI turn of the current wizard with the given random draws
EvAITurn(r3, r3b, r6, tp, rnd) ==
    [NoEvent EXCEPT !.e = "ai_turn", !.r3 = r3, !.r3b = r3b, !.r6 = r6,
                    !.tp = tp, !.rnd = rnd]

\* the state after one event: [g, turn_plan, executed]. The window takes a
\* click only on a human's turn (cw_gui.py:778-782) and the space bar at any
\* time (cw_gui.py:987-988); the loop runs the turn of an AI wizard once
\* (cw_gui.py:722-733). An event that cannot happen leaves the state alone.
Apply(st, ev) ==
    LET g == st.g
        w == get_current_player(g)
        human == ~g.game_over /\ g.kind[w] = "human"
        click(g1) == IF human THEN [st EXCEPT !.g = g1] ELSE st
    IN  CASE ev.e = "move" -> click(move_player(g, w, ev.pos).g)
          [] ev.e = "mine_roll" ->
                IF ev.pos \in roll_positions(g, w)
                THEN click(resolve_mine_with_roll(g, w, ev.pos, ev.roll, ev.die2, ev.tp).g)
                ELSE st
          [] ev.e = "mine_white" ->
                IF ev.pos \in white_positions(g, w)
                THEN click(mine_white_crystal(g, w, ev.pos).g) ELSE st
          [] ev.e = "lay_card" -> click(lay_down_spell_card(g, w, ev.card).g)
          [] ev.e = "charge_card" ->
                IF LaidIndex(g, w, ev.card) > 0 /\ g.crystals[w][ev.color] > 0
                THEN click(charge_laid_card(g, w, ev.card, ev.color, 1).g) ELSE st
          [] ev.e = "cast_spell" ->
                IF LaidIndex(g, w, ev.card) > 0
                THEN click(cast_spell(g, w, g.cards_laid_down[w][LaidIndex(g, w, ev.card)],
                                      TRUE, ev.sel, ev.rnd).g) ELSE st
          [] ev.e = "end_turn" ->
                With(end_turn(g),
                     LAMBDA g1 : [st EXCEPT !.g = g1,
                                            !.executed = @ /\ IsAITurn(g1)])
          [] ev.e = "ai_turn" ->
                IF ~IsAITurn(g) \/ st.executed THEN st
                ELSE With(plan_turn(g, w, st.turn_plan[w], ev.r3, ev.r3b, ev.r6),
                          LAMBDA p :
                            IF p.raised THEN st
                            ELSE With(run_plan(p.g, w, p.plan, 1, ev.die2, ev.tp, ev.rnd),
                                      LAMBDA g1 :
                                        LET ends == g1.current_actions
                                                      >= max_actions_per_turn
                                        IN  [g |-> IF ends THEN end_turn(g1) ELSE g1,
                                             turn_plan |->
                                                 [st.turn_plan EXCEPT ![w] = p.plan],
                                             executed |-> ~ends /\ ~g1.game_over]))

RECURSIVE Replay(_, _, _)
Replay(st, events, i) ==
    IF i > Len(events) THEN st
    ELSE With(Apply(st, events[i]),
              LAMBDA s1 :
                \* an opening stops at the end of the game
                IF s1.g.game_over THEN s1 ELSE Replay(s1, events, i + 1))

-----------------------------------------------------------------------------
(* The AI turn of the main loop (cw_gui.py:721-747), one engine call a step *)

\* the second die of blood magic is rolled only at the mine of the wizard's
\* own color, the outer tile is drawn only at the hot springs
Die2Choices(w, pos) ==
    IF is_mine(pos) /\ get_mine_color_from_position(pos) = WColor[w] THEN 1..6 ELSE {1}

\* the outer tiles random.choice is let to pick (cw_board.py:255)
TeleportTiles == {"hex_2", "hex_9"}

TpChoices(pos) == IF pos = "center" THEN TeleportTiles ELSE {"hex_0"}

\* execute_ai_turn starts: BaseAI.execute_turn plans the turn (cw_ai.py:20).
\* An exception of plan_turn is caught nowhere on the way up to main
AITurnBegin(r3, r3b, r6) ==
    /\ ~crashed
    /\ ai_pc = "idle"
    /\ steps < MaxSteps
    /\ IsAITurn(G)
    /\ ~ai_turn_executed
    /\ \E p \in {plan_turn(G, CurrentWizard, turn_plan[CurrentWizard], r3, r3b, r6)} :
          /\ SetGame(p.g)
          /\ turn_plan' = [turn_plan EXCEPT ![CurrentWizard] = p.plan]
          /\ crashed' = p.raised
          /\ ai_pc' = IF p.raised THEN "idle" ELSE "exec"
          /\ last' = [NoCall EXCEPT !.op = "plan_turn", !.who = CurrentWizard,
                                    !.res = IF p.raised THEN "raised" ELSE "True"]
    /\ ai_i' = 1
    /\ ai_turn_started' = TRUE
    /\ Step
    /\ UNCHANGED <<kind, ai_turn_executed>>

\* one pass of the loop of cw_ai.py:22-27 : the next planned action
AIExec(die2, tp, rnd) ==
    /\ ai_pc = "exec"
    /\ ai_i <= Len(turn_plan[CurrentWizard])
    /\ current_actions < max_actions_per_turn
    /\ \E r \in {execute_action(G, CurrentWizard, turn_plan[CurrentWizard][ai_i],
                                die2, tp, rnd)} :
          /\ SetGame(r.g)
          /\ last' = r.call
          /\ IF r.ok \/ get_backup_action(r.g, CurrentWizard) = <<>>
             THEN ai_pc' = "exec" /\ ai_i' = ai_i + 1
             ELSE ai_pc' = "backup" /\ ai_i' = ai_i
    /\ UNCHANGED <<kind, turn_plan, ai_turn_started, ai_turn_executed, crashed, steps>>

\* cw_ai.py:28-31 : the backup action after a planned action has failed
AIBackup ==
    /\ ai_pc = "backup"
    /\ \E r \in {execute_action(G, CurrentWizard, get_backup_action(G, CurrentWizard)[1],
                                1, "hex_0", [x \in 1..Len(WColor) |-> 0])} :
          /\ SetGame(r.g)
          /\ last' = r.call
    /\ ai_pc' = "exec"
    /\ ai_i' = ai_i + 1
    /\ UNCHANGED <<kind, turn_plan, ai_turn_started, ai_turn_executed, crashed, steps>>

\* execute_ai_turn has returned (cw_gui.py:734-743): the driver ends the
\* turn only when the action budget is used up; otherwise the flag
\* ai_turn_executed stays set, and the frames that follow do nothing for this
\* wizard.  The frame after a game over resets the flags (cw_gui.py:744-747)
AITurnEnd ==
    /\ ai_pc = "exec"
    /\ ~(ai_i <= Len(turn_plan[CurrentWizard])
         /\ current_actions < max_actions_per_turn)
    /\ IF current_actions >= max_actions_per_turn
       THEN /\ SetGame(end_turn(G))
            /\ last' = Call("end_turn", CurrentWizard, "True", G)
            /\ ai_turn_started' = FALSE
            /\ ai_turn_executed' = FALSE
       ELSE /\ UNCHANGED gameVars
            /\ last' = [NoCall EXCEPT !.op = "ai_turn_done", !.who = CurrentWizard]
            /\ ai_turn_started' = ~game_over
            /\ ai_turn_executed' = ~game_over
    /\ ai_pc' = "idle"
    /\ UNCHANGED <<kind, turn_plan, ai_i, crashed, steps>>

-----------------------------------------------------------------------------
(* Initial states and the next-state relation *)

\* a shuffle of the deck: the ids in the order of the pile, top last
Shuffle1 == [i \in 1..DeckSize |-> DeckSize + 1 - i]

\* the game a play of the events from a new game ends in: the game object,
\* the plans of the AI players and the flag of the main loop
Opening(kinds, shuffled, events) ==
    Replay([g |-> initialize_game(kinds, shuffled),
            turn_plan |-> [w \in 1..Len(kinds) |-> <<>>],
            executed |-> FALSE],
           events, 1)

\* no random draw matters, nobody selects crystals in a blocking dialog
NoDraws == [x \in 1..Len(WColor) |-> 0]

NoSelection == [x \in 1..Len(WColor) |-> ZeroCrystals]

\* three humans: red holds a charged card next to blue, who holds red
\* crystals, and shares its tile with green; red is to play
DuelOfThree ==
    Opening(<<"human", "human", "human">>, Shuffle1,
        <<EvMove("hex_0"), EvMineWhite("hex_0"), EvMineWhite("hex_1"),
          EvLay(0), EvCharge(1, "white"), EvCharge(1, "white"), EvEndTurn,
          EvMove("hex_6"), EvMove("mine_west"),
          EvMineRoll("mine_west", 3, 1), EvEndTurn, EvMove("center"),
          EvMove("rect_east"), EvMove("hex_0"), EvEndTurn>>)

\* a human and a medium AI: red stands on the blue mine with two white
\* crystals and one move made in its turn
AtTheMine ==
    Opening(<<"human", "medium">>, Shuffle1,
        <<EvMove("hex_0"), EvMineWhite("hex_0"), EvMineWhite("hex_1"),
          EvLay(0), EvEndTurn, EvAITurn(1, 1, 1, "hex_2", NoDraws),
          EvEndTurn, EvMove("mine_east")>>)

\* a human and a medium AI: red holds a charged card next to blue, who has
\* mined its own mine; red has mined once in its turn
MediumInReach ==
    Opening(<<"human", "medium">>, Shuffle1,
        <<EvLay(0), EvMineWhite("hex_1"), EvCharge(1, "white"),
          EvMineWhite("hex_11"), EvCharge(1, "white"), EvMove("center"),
          EvEndTurn, EvAITurn(1, 1, 1, "hex_0", NoDraws), EvEndTurn,
          EvMove("rect_north"), EvCast(1, NoSelection), EvLay(0),
          EvMineWhite("hex_10"), EvCharge(2, "white"), EvEndTurn,
          EvAITurn(1, 1, 1, "hex_0", NoDraws), EvEndTurn, EvEndTurn,
          EvAITurn(2, 1, 2, "hex_7", NoDraws), EvEndTurn,
          EvMineWhite("hex_9"), EvCharge(2, "white")>>)

\* a human and an easy AI: red holds a charged card next to blue, who holds
\* a white crystal; red is to play
EasyInReach ==
    Opening(<<"human", "easy">>, Shuffle1,
        <<EvLay(1), EvMineWhite("hex_0"), EvCharge(2, "white"),
          EvMineWhite("hex_11"), EvCharge(2, "white"), EvMove("center"),
          EvEndTurn, EvAITurn(1, 1, 1, "hex_0", NoDraws), EvEndTurn,
          EvMove("rect_west"), EvMineWhite("hex_5"), EvCast(2, NoSelection),
          EvLay(1), EvCharge(3, "white"), EvEndTurn, EvEndTurn,
          EvMineWhite("hex_6"), EvCharge(3, "white"), EvCast(3, NoSelection),
          EvLay(1), EvMineWhite("hex_7"), EvCharge(7, "white"), EvEndTurn,
          EvAITurn(3, 3, 5, "hex_3", NoDraws), EvMove("hex_5"),
          EvMineWhite("hex_4"), EvCharge(7, "white"), EvMove("hex_4"),
          EvEndTurn, EvAITurn(1, 1, 1, "hex_0", NoDraws)>>)

\* two humans: blue and red have emptied the red mine; red stands on it
\* with three red crystals and one action left
DrainedMine ==
    Opening(<<"human", "human">>, Shuffle1,
        <<EvMove("center"), EvMove("rect_west"), EvMove("hex_6"), EvEndTurn,
          EvMove("hex_6"), EvMineRoll("mine_west", 6, 1), EvEndTurn,
          EvMineRoll("mine_west", 3, 1), EvMove("center"), EvMove("rect_west"),
          EvEndTurn, EvEndTurn, EvMove("hex_6"), EvMove("mine_west")>>)

\* three humans: red and green have hit blue, who has 2 health left and
\* stands next to red; red holds a charged card of damage 2 and has mined
\* once in its turn
LastBlow ==
    Opening(<<"human", "human", "human">>, Shuffle1,
        <<EvLay(0), EvMineWhite("hex_0"), EvMineWhite("hex_1"),
          EvCharge(1, "white"), EvCharge(1, "white"), EvEndTurn,
          EvMove("center"), EvEndTurn,
          EvLay(0), EvMineWhite("hex_8"), EvMineWhite("hex_9"),
          EvCharge(7, "white"), EvCharge(7, "white"), EvCast(7, NoSelection),
          EvEndTurn,
          EvCast(1, NoSelection), EvLay(0), EvMineWhite("hex_11"),
          EvCharge(2, "white"), EvMove("hex_1"), EvEndTurn,
          EvMove("rect_east"), EvEndTurn, EvEndTurn,
          EvMineWhite("hex_2"), EvCharge(2, "white")>>)

\* three humans: red and green have hit blue, who has 2 health left and
\* stands next to green; green, in the last seat, holds a charged card of
\* damage 2 at the start of its turn
LastBlowFromBehind ==
    Opening(<<"human", "human", "human">>, Shuffle1,
        <<EvLay(0), EvMineWhite("hex_0"), EvMineWhite("hex_1"),
          EvCharge(1, "white"), EvCharge(1, "white"), EvEndTurn,
          EvMove("center"), EvEndTurn,
          EvLay(0), EvMineWhite("hex_8"), EvMineWhite("hex_9"),
          EvCharge(7, "white"), EvCharge(7, "white"), EvCast(7, NoSelection),
          EvEndTurn,
          EvCast(1, NoSelection), EvEndTurn,
          EvMove("rect_north"), EvEndTurn,
          EvLay(0), EvMineWhite("hex_10"), EvCharge(8, "white"),
          EvMove("hex_10"), EvMineWhite("hex_11"), EvCharge(8, "white"),
          EvEndTurn, EvEndTurn, EvEndTurn>>)

\* a shuffle of the deck that deals cards of three crystals
Shuffle2 == [i \in 1..DeckSize |-> ((40 - i) % DeckSize) + 1]

\* two humans: red has hit blue, who has 3 health left and stands next to
\* red; red holds a charged card of damage 3 and has one action left
FinalDuel ==
    Opening(<<"human", "human">>, Shuffle2,
        <<EvLay(0), EvMineWhite("hex_0"), EvMineWhite("hex_1"),
          EvCharge(9, "white"), EvCharge(9, "white"), EvEndTurn,
          EvMove("center"), EvEndTurn,
          EvMineWhite("hex_11"), EvCharge(9, "white"), EvCast(9, NoSelection),
          EvLay(0), EvMove("hex_1"), EvEndTurn,
          EvMove("rect_east"), EvEndTurn,
          EvMineWhite("hex_2"), EvCharge(10, "white"), EvMove("hex_2"),
          EvMineWhite("hex_3"), EvCharge(10, "white"), EvEndTurn,
          EvMove("center"), EvMove("rect_south"), EvEndTurn,
          EvMove("hex_3"), EvMineWhite("hex_4"), EvCharge(10, "white")>>)

\* three humans, as in LastBlow, but blue has mined a white crystal on its
\* way and still holds it
LastBlowAtHoarder ==
    Opening(<<"human", "human", "human">>, Shuffle1,
        <<EvLay(0), EvMineWhite("hex_0"), EvMineWhite("hex_1"),
          EvCharge(1, "white"), EvCharge(1, "white"), EvEndTurn,
          EvMineWhite("hex_5"), EvMove("center"), EvEndTurn,
          EvLay(0), EvMineWhite("hex_8"), EvMineWhite("hex_9"),
          EvCharge(7, "white"), EvCharge(7, "white"), EvCast(7, NoSelection),
          EvEndTurn,
          EvCast(1, NoSelection), EvLay(0), EvMineWhite("hex_11"),
          EvCharge(2, "white"), EvMove("hex_1"), EvEndTurn,
          EvMove("rect_east"), EvEndTurn, EvEndTurn,
          EvMineWhite("hex_2"), EvCharge(2, "white")>>)

\* a human and a medium AI: blue has rolled a six at its own mine, and has
\* laid down two cards and charged the first; red is to play
MediumCharged ==
    Opening(<<"human", "medium">>, Shuffle1,
        <<EvLay(0), EvMineWhite("hex_1"), EvCharge(1, "white"),
          EvMineWhite("hex_11"), EvCharge(1, "white"), EvMove("center"),
          EvEndTurn, EvAITurn(1, 1, 1, "hex_0", NoDraws), EvEndTurn,
          EvMove("rect_north"), EvCast(1, NoSelection), EvLay(0),
          EvMineWhite("hex_10"), EvCharge(2, "white"), EvEndTurn,
          EvAITurn(1, 1, 1, "hex_0", NoDraws), EvEndTurn, EvEndTurn,
          EvAITurn(2, 1, 6, "hex_7", NoDraws), EvEndTurn,
          EvEndTurn, EvAITurn(3, 3, 6, "hex_2", NoDraws), EvEndTurn,
          EvEndTurn, EvAITurn(3, 3, 6, "hex_2", NoDraws), EvEndTurn>>)

\* a human and a medium AI: blue has rolled a six at the red mine and holds
\* five red crystals and a white one, with two charged cards laid down; it
\* stands next to red, who holds a charged card and is to play
MediumWithRed ==
    Opening(<<"human", "medium">>, Shuffle1,
        <<EvMove("center"), EvMove("rect_south"), EvMineWhite("hex_4"), EvEndTurn,
          EvAITurn(1, 1, 1, "hex_0", NoDraws), EvEndTurn, EvEndTurn,
          EvAITurn(1, 1, 1, "hex_0", NoDraws), EvEndTurn, EvEndTurn,
          EvAITurn(1, 1, 6, "hex_0", NoDraws), EvEndTurn,
          EvLay(0), EvCharge(1, "white"), EvMineWhite("hex_3"), EvCharge(1, "white"),
          EvEndTurn, EvAITurn(3, 3, 6, "hex_2", NoDraws), EvEndTurn,
          EvEndTurn, EvAITurn(3, 3, 6, "hex_2", NoDraws), EvEndTurn,
          EvEndTurn, EvAITurn(3, 3, 6, "hex_2", NoDraws), EvEndTurn,
          EvEndTurn, EvAITurn(3, 3, 6, "hex_2", NoDraws), EvEndTurn,
          EvEndTurn, EvAITurn(3, 3, 6, "hex_2", NoDraws), EvEndTurn>>)

\* a new game of a human against an AI of the given difficulty
NewGame(difficulty) == Opening(<<"human", difficulty>>, Shuffle1, <<>>)

Openings ==
    {NewGame("easy"), NewGame("medium"), NewGame("hard"),
     DuelOfThree, AtTheMine, MediumInReach, EasyInReach, DrainedMine,
     LastBlow, LastBlowFromBehind, FinalDuel, LastBlowAtHoarder,
     MediumCharged, MediumWithRed}

Init ==
    \E st \in Openings :
        /\ kind = st.g.kind
        /\ players = st.g.players
        /\ current_player_index = st.g.current_player_index
        /\ current_actions = st.g.current_actions
        /\ moves_used = st.g.moves_used
        /\ mines_used = st.g.mines_used
        /\ spells_cast = st.g.spells_cast
        /\ game_over = st.g.game_over
        /\ winner = st.g.winner
        /\ health = st.g.health
        /\ crystals = st.g.crystals
        /\ location = st.g.location
        /\ hand = st.g.hand
        /\ cards_laid_down = st.g.cards_laid_down
        /\ mines = st.g.mines
        /\ white_crystals = st.g.white_crystals
        /\ wizards_on_board = st.g.wizards_on_board
        /\ cards = st.g.cards
        /\ discarded = st.g.discarded
        /\ turn_plan = st.turn_plan
        /\ ai_turn_started = st.executed
        /\ ai_turn_executed = st.executed
        /\ ai_pc = "idle"
        /\ ai_i = 1
        /\ crashed = FALSE
        /\ steps = 0
        /\ last = NoCall

\* the planned action the loop of execute_turn is at
PlannedAction ==
    IF ai_pc = "exec" /\ ai_i <= Len(turn_plan[CurrentWizard])
    THEN turn_plan[CurrentWizard][ai_i]
    ELSE NoAction

\* the dice of a mining sequence (dice_animation.py:54-61)
RollChoices(pos) == IF pos = "center" THEN 1..3 ELSE 1..6

Next ==
    \/ \E target \in Positions : MovePlayer(target)
    \/ \E position \in Positions :
          \E roll \in RollChoices(position) :
             \E die2 \in Die2Choices(CurrentWizard, position) :
                \E tp \in TpChoices(position) :
                   MineWithRoll(position, roll, die2, tp)
    \/ \E position \in Hexes : MineWhite(position)
    \/ \E card_index \in 0..2 : LayDown(card_index)
    \/ \E card \in OwnCards(CurrentWizard) :
          \E color \in Colors : ChargeCard(card, color)
    \/ \E card \in OwnCards(CurrentWizard) :
          LET targets == Range(cast_targets(G, CurrentWizard))
              damage == get_damage(card)
          IN  \E s1 \in SelChoices(1, targets, damage) :
                 \E s2 \in SelChoices(2, targets, damage) :
                    \E s3 \in SelChoices(3, targets, damage) :
                       \E r1 \in RndChoices(1, targets, damage) :
                          \E r2 \in RndChoices(2, targets, damage) :
                             \E r3 \in RndChoices(3, targets, damage) :
                                CastSpell(card, ByWizard(s1, s2, s3), ByWizard(r1, r2, r3))
    \/ EndTurn
    \/ \E r3 \in 1..3 : \E r3b \in 1..3 : \E r6 \in 1..6 : AITurnBegin(r3, r3b, r6)
    \/ LET w == CurrentWizard
           action == PlannedAction
           rolls == action.type = "mine" /\ action.roll # 0
           i == IF action.type = "cast_spell" THEN LaidIndex(G, w, action.card) ELSE 0
           targets == IF i # 0 THEN Range(cast_targets(G, w)) ELSE {}
           damage == IF i # 0 THEN get_damage(cards_laid_down[w][i]) ELSE 0
       IN  \E die2 \in (IF rolls THEN Die2Choices(w, location[w]) ELSE {1}) :
              \E tp \in (IF rolls THEN TpChoices(location[w]) ELSE {"hex_0"}) :
                 \E r1 \in RndChoices(1, targets, damage) :
                    \E r2 \in RndChoices(2, targets, damage) :
                       \E r3 \in RndChoices(3, targets, damage) :
                          AIExec(die2, tp, ByWizard(r1, r2, r3))
    \/ AIBackup
    \/ AITurnEnd

Spec == Init /\ [][Next]_vars

-----------------------------------------------------------------------------
(* The deck on its own: draws from piles of every shape (cw_entities.py:530-540) *)

\* the cards the two piles are made of, and the longest pile
MaxPile == 3

\* the sequences without repetition of at most n cards of the set pool
RECURSIVE Piles(_, _)
Piles(pool, n) ==
    IF n = 0 THEN {<<>>}
    ELSE {<<>>} \cup UNION {{<<c>> \o p : p \in Piles(pool \ {c}, n - 1)} : c \in pool}

\* a new game of two humans whose remaining cards lie in a draw pile and a
\* discard pile of any shape, and whose hands hold n cards each
DeckInit ==
    \E st \in {NewGame("easy")} :
      \E n \in 1..2 :
        \E pile \in Piles(Range(SubSeq(st.g.cards, 1, MaxPile)), MaxPile) :
          \E cut \in 0..Len(pile) :
            /\ kind = st.g.kind
            /\ players = st.g.players
            /\ current_player_index = st.g.current_player_index
            /\ current_actions = st.g.current_actions
            /\ moves_used = st.g.moves_used
            /\ mines_used = st.g.mines_used
            /\ spells_cast = st.g.spells_cast
            /\ game_over = st.g.game_over
            /\ winner = st.g.winner
            /\ health = st.g.health
            /\ crystals = st.g.crystals
            /\ location = st.g.location
            /\ hand = [w \in DOMAIN st.g.hand |-> SubSeq(st.g.hand[w], 1, n)]
            /\ cards_laid_down = st.g.cards_laid_down
            /\ mines = st.g.mines
            /\ white_crystals = st.g.white_crystals
            /\ wizards_on_board = st.g.wizards_on_board
            /\ cards = SubSeq(pile, 1, cut)
            /\ discarded = SubSeq(pile, cut + 1, Len(pile))
            /\ turn_plan = st.turn_plan
            /\ ai_turn_started = FALSE
            /\ ai_turn_executed = FALSE
            /\ ai_pc = "idle"
            /\ ai_i = 1
            /\ crashed = FALSE
            /\ steps = 0
            /\ last = NoCall

\* the replacement draw of cast_spell (cw_game.py:239-241) for wizard w: the
\* card drawn, if there is one, joins the hand
DrawCard(w, order) ==
    /\ steps < MaxSteps
    /\ Len(hand[w]) + Len(cards_laid_down[w]) < CardCapacity
    /\ \E r \in {draw_card_shuffled(G, order)} :
          /\ SetGame(IF r.card # <<>>
                     THEN [r.g EXCEPT !.hand[w] = Append(@, r.card[1])]
                     ELSE r.g)
          /\ last' = [NoCall EXCEPT !.op = "draw_card", !.who = w,
                                    !.res = IF r.card # <<>> THEN "True" ELSE "None",
                                    !.card = IF r.card # <<>> THEN r.card[1].id ELSE 0,
                                    !.amount = IF cards = <<>> THEN Len(discarded) ELSE 0]
    /\ Step
    /\ UNCHANGED <<kind, aiVars, crashed>>

DeckNext == \E w \in DOMAIN kind : \E order \in Orders(Len(discarded)) : DrawCard(w, order)

DeckSpec == DeckInit /\ [][DeckNext]_vars

-----------------------------------------------------------------------------
(* Setting up a game from a configuration (cw_game.py:14-116) *)

\* the longest players_config and the largest count of humans or of AIs
MaxConfig == 5

MaxCount == 3

\* the entries of a players_config: a color and the kind of the player
ConfigEntries ==
    {[color |-> c, kind |-> k] : c \in {"red", "blue"}, k \in {"human", "medium"}}

\* the arguments of CrystalWizardsGame(...): a players_config (<<>> for None
\* or an empty list, both false in the test of cw_game.py:17) and the counts
\* num_players and num_ai, which count only without a config
Configurations ==
    {[players_config |-> pc, num_players |-> 2, num_ai |-> 0] :
        pc \in UNION {[1..n -> ConfigEntries] : n \in 1..MaxConfig}}
    \cup {[players_config |-> <<>>, num_players |-> h, num_ai |-> a] :
             h \in 0..MaxCount, a \in 0..MaxCount}

\* the players the loops of cw_game.py:51-85 append: with a config one for
\* each entry, whatever its color; without one the humans and then the
\* medium AIs in the default color order, where colors[i] raises IndexError
\* past the fourth.  [raised, colors, kinds]
configured_players(conf) ==
    IF conf.players_config # <<>>
    THEN [raised |-> FALSE,
          colors |-> [i \in DOMAIN conf.players_config |-> conf.players_config[i].color],
          kinds |-> [i \in DOMAIN conf.players_config |-> conf.players_config[i].kind]]
    ELSE IF conf.num_players + conf.num_ai > Len(WColor)
    THEN [raised |-> TRUE, colors |-> <<>>, kinds |-> <<>>]
    ELSE [raised |-> FALSE,
          colors |-> SubSeq(WColor, 1, conf.num_players + conf.num_ai),
          kinds |-> [i \in 1..(conf.num_players + conf.num_ai) |->
                        IF i <= conf.num_players THEN "human" ELSE "medium"]]

\* place_wizards_on_board (cw_game.py:101-116) for players of the given
\* colors: each joins the list of the rectangle of its color
RECURSIVE place_wizards_on_board(_, _, _)
place_wizards_on_board(wob, colors, i) ==
    IF i > Len(colors) THEN wob
    ELSE place_wizards_on_board(
             add_wizard_to_position(wob, colored_rectangles[colors[i]], i), colors, i + 1)

\* the game object CrystalWizardsGame.__init__ leaves
constructed_game ==
    [players |-> <<>>, current_player_index |-> 0,
     current_actions |-> 0, moves_used |-> 0, mines_used |-> 0,
     spells_cast |-> 0, game_over |-> FALSE, winner |-> 0,
     health |-> <<>>, crystals |-> <<>>, location |-> <<>>, hand |-> <<>>,
     cards_laid_down |-> <<>>,
     mines |-> [c \in Range(MineColors) |-> MineCap],
     white_crystals |-> [h \in Hexes |-> 1],
     wizards_on_board |-> <<>>,
     cards |-> <<>>, discarded |-> <<>>, kind |-> <<>>, warned |-> 0, hits |-> <<>>]

\* CrystalWizardsGame.initialize_game for players of the given colors and
\* kinds, with the shuffled deck as given
initialize_configured(colors, kinds, shuffled) ==
    LET ws == 1..Len(colors)
    IN  Deal([constructed_game EXCEPT
                 !.players = [i \in ws |-> i],
                 !.health = [w \in ws |-> max_health],
                 !.crystals = [w \in ws |-> ZeroCrystals],
                 !.location = [w \in ws |-> colored_rectangles[colors[w]]],
                 !.hand = [w \in ws |-> <<>>],
                 !.cards_laid_down = [w \in ws |-> <<>>],
                 !.wizards_on_board = place_wizards_on_board(<<>>, colors, 1),
                 !.cards = [i \in 1..Len(shuffled) |-> Card(shuffled[i])],
                 !.kind = kinds], 1)

\* a game object constructed with any of the configurations
ConfigInit ==
    \E conf \in Configurations :
        /\ kind = constructed_game.kind
        /\ players = constructed_game.players
        /\ current_player_index = constructed_game.current_player_index
        /\ current_actions = constructed_game.current_actions
        /\ moves_used = constructed_game.moves_used
        /\ mines_used = constructed_game.mines_used
        /\ spells_cast = constructed_game.spells_cast
        /\ game_over = constructed_game.game_over
        /\ winner = constructed_game.winner
        /\ health = constructed_game.health
        /\ crystals = constructed_game.crystals
        /\ location = constructed_game.location
        /\ hand = constructed_game.hand
        /\ cards_laid_down = constructed_game.cards_laid_down
        /\ mines = constructed_game.mines
        /\ white_crystals = constructed_game.white_crystals
        /\ wizards_on_board = constructed_game.wizards_on_board
        /\ cards = constructed_game.cards
        /\ discarded = constructed_game.discarded
        /\ turn_plan = <<>>
        /\ ai_turn_started = FALSE
        /\ ai_turn_executed = FALSE
        /\ ai_pc = "idle"
        /\ ai_i = 1
        /\ crashed = FALSE
        /\ steps = 0
        /\ last = [op |-> "__init__", res |-> "", conf |-> conf, colors |-> <<>>]

\* GameGUI.run calls initialize_game (cw_gui.py:682); an exception ends the
\* program before the first frame
InitializeGame ==
    /\ last.op = "__init__"
    /\ \E p \in {configured_players(last.conf)} :
          IF p.raised
          THEN /\ UNCHANGED <<gameVars, kind, turn_plan>>
               /\ crashed' = TRUE
               /\ last' = [last EXCEPT !.op = "initialize_game", !.res = "raised"]
          ELSE /\ \E g \in {initialize_configured(p.colors, p.kinds, Shuffle1)} :
                     SetGame(g) /\ kind' = g.kind
               /\ turn_plan' = [w \in DOMAIN p.kinds |-> <<>>]
               /\ crashed' = FALSE
               /\ last' = [last EXCEPT !.op = "initialize_game", !.res = "True",
                                       !.colors = p.colors]
    /\ Step
    /\ UNCHANGED <<ai_pc, ai_i, ai_turn_started, ai_turn_executed>>

ConfigNext == InitializeGame

ConfigSpec == ConfigInit /\ [][ConfigNext]_vars

-----------------------------------------------------------------------------
(* Properties *)

\* the wizards still in the game
Active == Range(players)

\* the crystals of color c that wizard w has charged onto its laid-down cards
OnCards(w, c) ==
    SeqSum([i \in 1..Len(cards_laid_down[w]) |->
              cards_laid_down[w][i].original_crystals_used[c]])

\* the crystals of color c held by the wizards in the game, in their reserves
\* or on their cards
Held(c) ==
    SeqSum([i \in 1..Len(players) |-> crystals[players[i]][c] + OnCards(players[i], c)])

\* the crystals of color c on the board: the mine of the color, or the outer
\* tiles for white
OnBoard(c) ==
    IF c = "white"
    THEN SeqSum([i \in 1..Len(HexName) |-> white_crystals[HexName[i]]])
    ELSE mines[c]

InitialTotal(c) == IF c = "white" THEN Len(HexName) ELSE MineCap

\* C1: conservation: for every color, the crystals of the wizards (those
\* charged on their cards counted with their reserves) plus the stock of the
\* mine, or the deposits of the outer tiles for white, equal the color's
\* initial total
C1_Conservation == \A c \in Colors : Held(c) + OnBoard(c) = InitialTotal(c)

\* C2: capacity: no wizard holds more than max_crystals crystals, no mine
\* more than 9, no outer tile more than 1
C2_Capacity ==
    /\ \A w \in DOMAIN kind : Total(crystals[w]) <= max_crystals
    /\ \A c \in Range(MineColors) : mines[c] <= MineCap
    /\ \A h \in Hexes : white_crystals[h] <= 1

\* a cast has been blocked and the caster holds crystals of its own color,
\* which blocking hands over to it
C2_BlockedTransfer ==
    /\ last.op = "cast_spell" /\ last.res = "True"
    /\ \E i \in 1..Len(last.hits) : last.hits[i].blocked > 0
    /\ crystals[last.who][WColor[last.who]] > 0

C3_Caps ==
    /\ current_actions <= max_actions_per_turn
    /\ moves_used <= 3
    /\ mines_used <= 2
    /\ spells_cast <= 1

C3_Reset ==
    (\/ current_actions' < current_actions
     \/ moves_used' < moves_used
     \/ mines_used' < mines_used
     \/ spells_cast' < spells_cast)
        => /\ last'.op = "end_turn"
           /\ current_actions' = 0 /\ moves_used' = 0
           /\ mines_used' = 0 /\ spells_cast' = 0

\* C3: action budget: in a turn at most 3 actions, 3 moves, 2 mines and 1
\* cast, whoever plays and whether the calls succeed; a counter goes down
\* only in an end_turn, which sets all four to 0
C3_ActionBudget == []C3_Caps /\ [][C3_Reset]_vars

\* the budget is used up and a move, mine or cast has just been refused
C3_Exhausted ==
    /\ current_actions = max_actions_per_turn
    /\ last.op \in {"move", "mine_roll", "mine_white", "cast_spell"}
    /\ last.res = "False"

C4_Step ==
    last'.op = "cast_spell" =>
        \A i \in 1..Len(last'.hits) :
            LET t == last'.hits[i].target
                incoming == last'.hits[i].incoming
                blocked == Total(crystals[t]) - Total(crystals'[t])
            IN  /\ 0 <= blocked
                /\ blocked <= Min(incoming, Total(crystals[t]))
                /\ last'.hits[i].blocked = blocked
                /\ health'[t] = Max(0, health[t] - (incoming - blocked))

\* C4: blocking bound: every target of a cast loses incoming - blocked
\* health, down to 0 at most, where blocked is the number of crystals that
\* leave its reserve and 0 <= blocked <= min(incoming, crystals held before)
C4_BlockingBound == [][C4_Step]_vars

\* an AI target has blocked a part of the damage of a cast
C4_AIBlocked ==
    /\ last.op = "cast_spell"
    /\ \E i \in 1..Len(last.hits) :
          /\ kind[last.hits[i].target] # "human"
          /\ last.hits[i].blocked > 0

\* C5: an AI turn returns to the main loop for every difficulty: no
\* exception of the AI leaves it
C5_AITurnReturns == ~crashed

\* C6: when an AI turn has executed, the action counter has reached
\* max_actions_per_turn, so that the main loop ends the turn
C6_AITurnEnds ==
    (ai_pc = "idle" /\ ai_turn_executed /\ IsAITurn(G))
        => current_actions >= max_actions_per_turn

C7_Step ==
    last'.op = "move" =>
        LET w == last'.who
            target == last'.pos
            legal == /\ moves_used < 3
                     /\ current_actions < max_actions_per_turn
                     /\ target \in Range(connections[location[w]])
        IN  /\ (last'.res = "True") <=> legal
            /\ legal => /\ location'[w] = target
                        /\ moves_used' = moves_used + 1
                        /\ current_actions' = current_actions + 1

\* C7: a move succeeds exactly when fewer than 3 moves and fewer than 3
\* actions are used and the target is adjacent, whoever stands there; it then
\* puts the wizard on the target and adds 1 to both counters
C7_Move == [][C7_Step]_vars

\* a wizard has moved onto a position where another wizard stands
C7_MovedOntoOccupied ==
    /\ last.op = "move" /\ last.res = "True"
    /\ \E x \in Active \ {last.who} : location[x] = location[last.who]

C8_Step ==
    last'.op = "cast_spell" =>
        LET w == last'.who
            laid == cards_laid_down[w]
        IN  (last'.res = "True") <=>
                /\ spells_cast < 1
                /\ current_actions < max_actions_per_turn
                /\ \E i \in 1..Len(laid) :
                      /\ laid[i].id = last'.card
                      /\ \A k \in Keys : laid[i].crystals_used[k] >= laid[i].cost[k]

\* C8: a cast succeeds exactly when no spell was cast in the turn, an action
\* is left, and the card lies among the wizard's laid-down cards with every
\* cost paid
C8_Cast == [][C8_Step]_vars

\* a cast of a card that is in the hand, or not fully charged, was refused
\* though the budget allowed a cast
C8_Refused ==
    /\ last.op = "cast_spell" /\ last.res = "False"
    /\ spells_cast < 1 /\ current_actions < max_actions_per_turn

\* the wizards a cast of w reaches: the others on a position next to w
Reached(w) ==
    {x \in Active \ {w} : location[x] \in Range(connections[location[w]])}

C9_Step ==
    (last'.op = "cast_spell" /\ last'.res = "True") =>
        LET w == last'.who
            laid == cards_laid_down[w]
            card == laid[CHOOSE i \in 1..Len(laid) : laid[i].id = last'.card]
        IN  /\ {last'.hits[i].target : i \in 1..Len(last'.hits)} = Reached(w)
            /\ \A i \in 1..Len(last'.hits) : last'.hits[i].incoming = KeyTotal(card.cost)
            /\ \A x \in DOMAIN kind \ Reached(w) :
                  /\ health'[x] = health[x]
                  /\ \A c \in Colors : crystals'[x][c] >= crystals[x][c]

\* C9: a successful cast hits exactly the other wizards on the positions
\* adjacent to the caster, each with the damage of the card; nobody else,
\* the caster and the wizards on its own tile included, loses health or
\* crystals
C9_Targets == [][C9_Step]_vars

\* a cast has hit a wizard while another wizard shares the caster's tile
C9_SharedTile ==
    /\ last.op = "cast_spell" /\ last.res = "True"
    /\ Len(last.hits) > 0
    /\ \E x \in Active \ {last.who} : location[x] = location[last.who]

C10_Step ==
    (/\ last'.op = "mine_roll"
     /\ is_mine(last'.pos)
     /\ mines_used < 2 /\ current_actions < max_actions_per_turn
     /\ get_mine_color_from_position(last'.pos) # WColor[last'.who]) =>
        LET w == last'.who
            c == get_mine_color_from_position(last'.pos)
            granted == Min(Min(last'.roll, mines[c]), max_crystals - Total(crystals[w]))
        IN  /\ crystals'[w][c] = crystals[w][c] + granted
            /\ mines'[c] = mines[c] - granted

\* C10: mining a mine of another color with a roll grants min(roll, stock,
\* free capacity) crystals of the mine's color, and the stock goes down by
\* what was granted
C10_MineGrant == [][C10_Step]_vars

\* a roll-mining call at a colored mine that holds no crystal
C11_EmptyMineCall ==
    /\ last'.op = "mine_roll"
    /\ is_mine(last'.pos)
    /\ mines[get_mine_color_from_position(last'.pos)] = 0

C11_Step ==
    C11_EmptyMineCall =>
        /\ last'.res = "False"
        /\ UNCHANGED <<mines_used, current_actions, crystals, health, location, mines>>

\* C11: resolve_mine_with_roll at a colored mine whose stock is 0 returns
\* False and changes neither mines_used, current_actions, the wizard's
\* reserve, health and location, nor the stock of the mine
C11_EmptyMine == [][C11_Step]_vars

C12_Step ==
    (last'.op \in {"move", "cast_spell"} /\ last'.res = "False") =>
        UNCHANGED <<gameVars, crashed>>

\* C12: a rejected move and a rejected cast return False without raising and
\* leave the whole game unchanged: positions, board occupancy, reserves,
\* healths, cards, deck, the four turn counters and the current player
C12_RejectedUnchanged == [][C12_Step]_vars

\* a move to a tile that is not adjacent has been refused although the
\* budget allowed a move
C12_FarMoveRefused ==
    /\ last.op = "move"
    /\ last.res = "False"
    /\ can_move(G)
    /\ last.pos \notin Range(connections[location[last.who]])

C13_Step ==
    last'.op = "mine_white" =>
        LET w == last'.who
            position == last'.pos
            legal == /\ mines_used < 2
                     /\ current_actions < max_actions_per_turn
                     /\ position \in Hexes
                     /\ white_crystals[position] > 0
                     /\ Total(crystals[w]) < max_crystals
        IN  /\ (last'.res = "True") <=> legal
            /\ legal =>
                  /\ white_crystals[position] = 1
                  /\ white_crystals'[position] = 0
                  /\ crystals'[w] = [crystals[w] EXCEPT !["white"] = @ + 1]
                  /\ mines_used' = mines_used + 1
                  /\ current_actions' = current_actions + 1
            /\ Total(crystals[w]) >= max_crystals =>
                  /\ white_crystals' = white_crystals
                  /\ crystals' = crystals

C14_Step ==
    (last'.op = "mine_roll" /\ is_healing_springs(last'.pos) /\ can_mine(G)) =>
        LET w == last'.who
        IN  /\ last'.res = "True"
            /\ health'[w] = Min(max_health, health[w] + last'.roll)
            /\ health'[w] <= max_health
            /\ \A x \in DOMAIN kind \ {w} : health'[x] = health[x]
            /\ crystals' = crystals
            /\ mines' = mines
            /\ white_crystals' = white_crystals
            /\ location'[w] \in Range(get_outer_ring_positions)
            /\ Cardinality(Range(get_outer_ring_positions)) = 12
            /\ w \in Range(wizards_on_board'[location'[w]])
            /\ mines_used' = mines_used + 1
            /\ current_actions' = current_actions + 1
            /\ moves_used' = moves_used

C15_Step ==
    (last'.op = "mine_roll" /\ is_mine(last'.pos) /\ last'.res = "True") =>
        LET w == last'.who
            old == location[w]
            new == location'[w]
        IN  /\ new \in Rects
            /\ rect_config[new] = get_mine_color_from_position(last'.pos)
            /\ new \in DOMAIN wizards_on_board'
            /\ w \in Range(wizards_on_board'[new])
            /\ old # new =>
                  (old \in DOMAIN wizards_on_board' => w \notin Range(wizards_on_board'[old]))
            /\ moves_used' = moves_used

C16_Step ==
    last'.op = "cast_spell" =>
        \A i \in 1..Len(last'.hits) :
            LET h == last'.hits[i]
                a == WColor[last'.who]
            IN  /\ h.to_attacker[a] = Min(h.spent[a], h.attacker_room)
                /\ h.to_board[a] = h.spent[a] - h.to_attacker[a]
                /\ \A c \in Colors \ {a} :
                      /\ h.to_attacker[c] = 0
                      /\ h.to_board[c] = h.spent[c]
                /\ Total(h.spent) = Total(h.to_attacker) + Total(h.to_board)

\* C16: of the crystals a defender spends on a block, those of the
\* attacker's color go to the attacker's reserve while it has room and the
\* overflow to the board, every other spent crystal goes to the board, and
\* as many crystals arrive at the attacker and on the board as leave the
\* defender
C16_Disposition == [][C16_Step]_vars

\* a successful cast during which nobody blocked and nobody was eliminated:
\* only the crystals of the card go back to the board
C17_PlainCast ==
    /\ last'.op = "cast_spell"
    /\ last'.res = "True"
    /\ players' = players
    /\ \A i \in 1..Len(last'.hits) : last'.hits[i].blocked = 0

C17_Step ==
    C17_PlainCast =>
        LET laid == cards_laid_down[last'.who]
            card == laid[CHOOSE i \in 1..Len(laid) : laid[i].id = last'.card]
            used == card.original_crystals_used
            empty_tiles == Len(HexName) - CrystalsOnBoard(G, "white")
        IN  /\ \A c \in Range(MineColors) :
                  mines'[c] = Min(MineCap, mines[c] + used[c])
            /\ \A h \in Hexes : white_crystals'[h] >= white_crystals[h]
            /\ SeqSum([i \in 1..Len(HexName) |-> white_crystals'[HexName[i]]])
                  = CrystalsOnBoard(G, "white") + Min(used["white"], empty_tiles)

\* C17: after a successful cast the crystals spent on the card are back on
\* the board by their original type: each colored crystal in the mine of
\* its color, each white crystal, also one that filled a color or wild
\* slot, as white on an empty outer tile
C17_ReturnByType == [][C17_Step]_vars

\* the wizards registered on the tiles of the board
OnTheBoard ==
    UNION {Range(wizards_on_board[p]) : p \in DOMAIN wizards_on_board}

\* C18: between actions every wizard of the active list has a health of 1
\* to max_health, no health is above max_health or below 0, and a wizard
\* whose health is 0 is neither in the active list nor on the board
C18_Health ==
    /\ \A w \in Active : 1 <= health[w] /\ health[w] <= max_health
    /\ \A w \in DOMAIN kind :
          /\ 0 <= health[w] /\ health[w] <= max_health
          /\ health[w] = 0 => (w \notin Active /\ w \notin OnTheBoard)

\* a cast has taken a wizard's health to 0
C18_Eliminated ==
    /\ last.op = "cast_spell"
    /\ last.res = "True"
    /\ \E i \in 1..Len(last.hits) :
          /\ last.hits[i].health_after = 0
          /\ health[last.hits[i].target] = 0

\* the active list keeps the wizards in their original seating order and
\* the index of the current player lies within it
C19_Seating ==
    /\ \A i, j \in 1..Len(players) : i < j => players[i] < players[j]
    /\ players # <<>> => current_player_index \in 0..(Len(players) - 1)

C19_Step ==
    /\ last'.op = "cast_spell" =>
          /\ players' = SelectSeq(players, LAMBDA x : x \in Range(players'))
          /\ last'.who \in Range(players')
          /\ players'[current_player_index' + 1] = last'.who
    /\ last'.op = "end_turn" =>
          /\ players' = players
          /\ current_player_index' = (current_player_index + 1) % Len(players)
          /\ Len(players) >= 2 =>
                players'[current_player_index' + 1] # players[current_player_index + 1]
    /\ last'.op \notin {"cast_spell", "end_turn"} =>
          UNCHANGED <<players, current_player_index>>

\* C19: after a cast that eliminates targets of any seats the current
\* player is still the caster, and every end_turn passes the turn to the
\* next survivor in the original seating order: no survivor is skipped and
\* none plays twice in a row while two or more survive
C19_TurnOrder == []C19_Seating /\ [][C19_Step]_vars

\* the caster of a later seat has eliminated a wizard of an earlier seat and
\* has ended its turn with two or more survivors
C19_TurnPassedOn ==
    /\ last.op = "end_turn"
    /\ Len(players) >= 2
    /\ \E w \in DOMAIN kind : w \notin Active /\ w < last.who

\* C20: between actions game_over is true exactly when at most one wizard is
\* active; a single survivor is the winner, and while two or more are
\* active the game is not over and there is no winner
C20_WinDetection ==
    /\ game_over <=> Len(players) <= 1
    /\ Len(players) = 1 => winner = players[1]
    /\ Len(players) >= 2 => (~game_over /\ winner = 0)

\* a cast has eliminated the last opponent: the caster has won
C20_Won ==
    /\ last.op = "cast_spell"
    /\ game_over
    /\ players = <<last.who>>
    /\ winner = last.who

C21_Step ==
    last'.op = "end_turn" =>
        /\ current_actions' = 0
        /\ moves_used' = 0
        /\ mines_used' = 0
        /\ spells_cast' = 0
        /\ players' = players
        /\ current_player_index' =
              IF current_player_index + 1 = Len(players) THEN 0
              ELSE current_player_index + 1
        /\ UNCHANGED <<crystals, health, hand, cards_laid_down, cards, discarded,
                       location, wizards_on_board, mines, white_crystals,
                       game_over, winner>>

\* C21: end_turn sets current_actions, moves_used, mines_used and spells_cast
\* to 0 and makes the next wizard of the active list the current player,
\* the first one after the last; it changes no reserve, health, card,
\* position or deposit of the board
C21_EndTurn == [][C21_Step]_vars

\* the wizard of the last seat has ended its turn and the first one plays
C21_Wrapped ==
    /\ last.op = "end_turn"
    /\ Len(players) >= 2
    /\ last.who = players[Len(players)]
    /\ current_player_index = 0
    /\ current_actions = 0

\* C22: a turn ends by itself with its third counted action: while the game
\* goes on, no state in which the window waits for input has
\* current_actions = 3
C22_AutoEnd ==
    (ai_pc = "idle" /\ ~crashed /\ ~game_over) =>
        current_actions < max_actions_per_turn

C23_Step ==
    last'.op = "cast_spell" =>
        \A i \in 1..Len(last'.hits) :
            LET h == last'.hits[i]
            IN  h.eliminated =>
                  /\ \A c \in Colors : h.returned[c] = Min(h.reserve[c], h.room[c])
                  /\ h.warnings = Total(h.reserve) - Total(h.returned)

\* C23: the whole reserve of an eliminated wizard goes back to the board:
\* the crystals of a color into its mine up to 9, the white ones onto empty
\* outer tiles, and every crystal that finds no place is counted by a
\* warning of the log
C23_ReserveReturned == [][C23_Step]_vars

\* the laid-down card of wizard w with the given id in the list laid, or the
\* empty sequence
CardById(laid, id) == SelectSeq(laid, LAMBDA c : c.id = id)

C24_Step ==
    last'.op = "charge_card" =>
        LET w == last'.who
            before == CardById(cards_laid_down[w], last'.card)
            after == CardById(cards_laid_down'[w], last'.card)
        IN  IF last'.res = "False"
            THEN crystals' = crystals /\ cards_laid_down' = cards_laid_down
            ELSE /\ Len(before) = 1 /\ Len(after) = 1
                 /\ KeyTotal(after[1].crystals_used) >= KeyTotal(before[1].crystals_used)
                 /\ crystals[w][last'.color] - crystals'[w][last'.color]
                       = KeyTotal(after[1].crystals_used)
                            - KeyTotal(before[1].crystals_used)
                 /\ \A c \in Colors \ {last'.color} : crystals'[w][c] = crystals[w][c]
                 /\ \A x \in DOMAIN kind \ {w} : crystals'[x] = crystals[x]

\* C24: a charging call that returns False changes neither the reserve nor
\* the card; one that returns True takes from the reserve of the given
\* color exactly what the card's crystals_used gains and leaves the other
\* colors alone
C24_ChargeAtomic == [][C24_Step]_vars

\* a wizard has offered a crystal it holds to a card that has no slot for it
C24_ChargeRefused ==
    /\ last.op = "charge_card"
    /\ last.res = "False"
    /\ crystals[last.who][last.color] > 0
    /\ Len(CardById(cards_laid_down[last.who], last.card)) = 1

\* the crystal colors the slot k of a card takes from a wizard of color own
C25_Fits(k, color, own) ==
    IF k = "wild" THEN color \in {own, "white"} ELSE color \in {k, "white"}

C25_Step ==
    (last'.op = "charge_card"
        /\ Len(CardById(cards_laid_down[last'.who], last'.card)) = 1) =>
        LET w == last'.who
            color == last'.color
            before == CardById(cards_laid_down[w], last'.card)[1]
            after == CardById(cards_laid_down'[w], last'.card)[1]
            open(k) == /\ before.crystals_used[k] < before.cost[k]
                       /\ C25_Fits(k, color, WColor[w])
                       /\ crystals[w][color] >=
                             Min(last'.amount, before.cost[k] - before.crystals_used[k])
        IN  /\ \A k \in Keys :
                  after.crystals_used[k] > before.crystals_used[k] =>
                      C25_Fits(k, color, WColor[w])
            /\ (last'.res = "True") <=> (\E k \in Keys : open(k))

\* C25: a wild slot is filled only by a crystal of the charging wizard's own
\* color or a white one, a slot of a color only by a crystal of that color
\* or a white one; a crystal of another color raises no slot, and the call
\* returns False when no slot takes it
C25_SlotMatching == [][C25_Step]_vars

\* a crystal of the wizard's own color has filled the wild slot of a card
C25_OwnColorInWild ==
    /\ last.op = "charge_card"
    /\ last.res = "True"
    /\ last.color = WColor[last.who]
    /\ \E c \in Range(cards_laid_down[last.who]) :
          /\ c.id = last.card
          /\ c.crystals_used["wild"] > 0
          /\ c.original_crystals_used[last.color] > 0

C26_Step ==
    \A w \in DOMAIN kind :
        \A i \in 1..Len(cards_laid_down[w]) :
            LET card == cards_laid_down[w][i]
                after == CardById(cards_laid_down'[w], card.id)
            IN  IF after = <<>>
                THEN /\ last'.op = "cast_spell"
                     /\ last'.res = "True"
                     /\ last'.who = w
                     /\ last'.card = card.id
                ELSE /\ Len(after) = 1
                     /\ \A k \in Keys : after[1].crystals_used[k] >= card.crystals_used[k]
                     /\ (\A k \in Keys : card.crystals_used[k] >= card.cost[k]) =>
                           (\A k \in Keys : after[1].crystals_used[k] >= after[1].cost[k])

\* C26: whatever happens to a laid-down card (charging attempts, the
\* planning and scoring of an AI, blocking, the actions of other wizards),
\* no entry of crystals_used decreases and a fully charged card stays fully
\* charged until its owner casts it
C26_Monotone == [][C26_Step]_vars

\* a medium AI has planned its turn with a laid-down card that holds crystals
C26_PlannedWithCard ==
    /\ last.op = "plan_turn"
    /\ kind[last.who] = "medium"
    /\ \E c \in Range(cards_laid_down[last.who]) : KeyTotal(c.crystals_used) > 0

\* every card a wizard holds, in its hand or laid down
CardsHeld == UNION {Range(hand[w]) \cup Range(cards_laid_down[w]) : w \in DOMAIN kind}

\* C27: on every spell card crystals_used[k] <= cost[k] for every key k of
\* the cost, and the card reports fully charged exactly when
\* crystals_used[k] = cost[k] for all k
C27_SlotsWithinCost ==
    \A card \in CardsHeld :
        /\ \A k \in Keys : card.crystals_used[k] <= card.cost[k]
        /\ is_fully_charged(card) <=> (\A k \in Keys : card.crystals_used[k] = card.cost[k])

\* a charge has just filled the last free slot of a card
C27_FilledUp ==
    /\ last.op = "charge_card"
    /\ last.res = "True"
    /\ \E card \in Range(cards_laid_down[last.who]) :
          card.id = last.card /\ is_fully_charged(card)

C28_Capacity ==
    \A w \in DOMAIN kind :
        Len(hand[w]) <= CardCapacity /\ Len(cards_laid_down[w]) <= CardCapacity

C28_Step ==
    (last'.op = "lay_card" /\ last'.amount \notin 0..(Len(hand[last'.who]) - 1)) =>
        /\ last'.res = "False"
        /\ hand' = hand
        /\ cards_laid_down' = cards_laid_down
        /\ cards' = cards
        /\ discarded' = discarded

\* C28: in every reachable state the hand of each wizard holds at most 3
\* cards and its laid-down area holds at most 3 cards; lay_down_spell_card
\* with an index outside the hand returns False and moves no card
C28_CardCapacities == []C28_Capacity /\ [][C28_Step]_vars

\* a wizard with cards laid down has named an index past the end of its hand
C28_IndexRefused ==
    /\ last.op = "lay_card"
    /\ last.res = "False"
    /\ last.amount >= Len(hand[last.who])
    /\ cards_laid_down[last.who] # <<>>

\* the ids of the cards in the draw pile, the discard pile, the hands and
\* the laid-down areas, one entry for each place a card lies in
CardPlaces ==
    LET ids(pile) == [i \in 1..Len(pile) |-> pile[i].id]
        RECURSIVE held(_)
        held(w) == IF w > Len(kind) THEN <<>>
                   ELSE ids(hand[w]) \o ids(cards_laid_down[w]) \o held(w + 1)
    IN  ids(cards) \o ids(discarded) \o held(1)

C29_OnePlace == Cardinality(Range(CardPlaces)) = Len(CardPlaces)

C29_Step ==
    last'.op = "draw_card" =>
        /\ (cards = <<>> /\ discarded # <<>>) =>
              /\ discarded' = <<>>
              /\ last'.res = "True"
              /\ \E c \in Range(discarded) :
                    /\ c.id = last'.card
                    /\ Range(cards') = Range(discarded) \ {c}
                    /\ Len(cards') = Len(discarded) - 1
                    /\ hand'[last'.who] = Append(hand[last'.who], c)
        /\ last'.res = "None" <=> (cards = <<>> /\ discarded = <<>>)

\* C29: a draw from an empty draw pile with a discard pile that is not empty
\* moves the whole discard pile into the draw pile, leaves the discard pile
\* empty and returns one of those cards; a draw returns no card only when
\* both piles are empty; no card lies in two of the draw pile, the discard
\* pile, the hands and the laid-down areas at once
C29_DeckDraw == []C29_OnePlace /\ [][C29_Step]_vars

\* a draw has refilled the draw pile from a discard pile of several cards
C29_Reshuffled ==
    /\ last.op = "draw_card"
    /\ last.res = "True"
    /\ last.amount >= 2
    /\ cards # <<>>
    /\ discarded = <<>>

\* C30: the board graph is undirected and connected: a is adjacent to b
\* exactly when b is adjacent to a, each of the 21 positions (the hub, 4
\* colored slots, 12 outer tiles, 4 mines) is reachable from every other
\* along adjacency, and validate_connectivity reports true
C30_BoardGraph ==
    /\ Cardinality(Positions) = 21
    /\ Cardinality(Rects) = 4 /\ Cardinality(Hexes) = 12 /\ Cardinality(MinePositions) = 4
    /\ \A a, b \in Positions : is_adjacent(a, b) <=> is_adjacent(b, a)
    /\ \A a \in Positions : bfs({}, <<a>>) = Positions
    /\ validate_connectivity
    /\ \A w \in DOMAIN location : location[w] \in Positions

\* a wizard has stepped from an outer tile onto the mine behind it
C30_OntoMine ==
    /\ last.op = "move"
    /\ last.res = "True"
    /\ last.pos \in MinePositions
    /\ location[last.who] = last.pos

\* C31: a game whose configuration has duplicate colors, or fewer than 2 or
\* more than 4 players, fails to initialize, so that the wizards of a started
\* game are 2 to 4 and their colors pairwise distinct
C31_ConfigChecked ==
    (last.op = "initialize_game" /\ last.res = "True") =>
        /\ Len(players) \in 2..4
        /\ \A i, j \in DOMAIN last.colors : last.colors[i] = last.colors[j] => i = j

C32_Step ==
    last'.op = "cast_spell" =>
        \A i \in 1..Len(last'.hits) :
            LET h == last'.hits[i]
                a == WColor[last'.who]
                others == Total(crystals[h.target]) - crystals[h.target][a]
            IN  kind[h.target] \in {"medium", "hard"} =>
                    /\ h.spent[a] > 0 => h.blocked > others
                    /\ h.blocked > others => h.spent[a] = h.blocked - others

\* C32: a medium or hard AI defender spends crystals of the attacker's
\* color on a block only when the block amount exceeds what it holds of the
\* other three colors and of white, and then it spends exactly the excess
C32_AttackerColorLast == [][C32_Step]_vars

\* a medium AI has blocked with the last of its other crystals and with a
\* crystal of the attacker's color
C32_ExcessSpent ==
    /\ last.op = "cast_spell"
    /\ \E i \in 1..Len(last.hits) :
          /\ kind[last.hits[i].target] = "medium"
          /\ last.hits[i].spent[WColor[last.who]] > 0
          /\ last.hits[i].spent["white"] > 0

\* what _calculate_ai_blocking_amount means to keep of the reserve of wizard
\* w: the crystals its unfinished cards still need and min(2, white held)
BlockingReserve(w) ==
    NeededForSpells(hand[w] \o cards_laid_down[w]) + Min(2, crystals[w]["white"])

C33_Step ==
    last'.op = "cast_spell" =>
        \A i \in 1..Len(last'.hits) :
            LET h == last'.hits[i]
                t == h.target
            IN  kind[t] \in {"medium", "hard"} =>
                    /\ h.removed <= Max(0, Total(crystals[t]) - BlockingReserve(t))
                    /\ Total(crystals[t]) >= BlockingReserve(t) =>
                          Total(crystals[t]) - h.removed >= BlockingReserve(t)

\* C33: a medium or hard AI defender spends on a block no more than its
\* total crystals less the crystals its unfinished cards still need and less
\* its white buffer min(2, white held); when it held that reserve before the
\* block, it holds at least as much after it
C33_ReserveKept == [][C33_Step]_vars

\* C34: computing a turn plan, the medium AI's charging-efficiency test and
\* the hard AI's charge evaluation included, leaves the reserves, every
\* card's crystals_used and original_crystals_used, the board and the turn
\* counters as they were; only executed engine operations change the game.
C34_Step ==
    last'.op = "plan_turn" => UNCHANGED gameVars

C34_PlanningIsPure == [][C34_Step]_vars

\* C35: crystals are never created: for every color the reserves of the
\* active wizards, the mine stock (the outer-tile deposits for white) and the
\* crystals of that original type recorded on laid-down cards together never
\* exceed the color's initial total.
C35_NothingCreated == \A c \in Colors : Held(c) + OnBoard(c) <= InitialTotal(c)

\* the number of times wizard w is listed on tile p
TimesListed(w, p) ==
    Cardinality({i \in 1..Len(wizards_on_board[p]) : wizards_on_board[p][i] = w})

\* C36: the occupancy map of the board agrees with the locations: every
\* active wizard is listed exactly once, on the tile that is its location; an
\* eliminated wizard is listed nowhere; no tile maps to an empty list.
C36_Occupancy ==
    /\ \A w \in Active :
          /\ location[w] \in DOMAIN wizards_on_board
          /\ \A p \in DOMAIN wizards_on_board :
                TimesListed(w, p) = IF p = location[w] THEN 1 ELSE 0
    /\ \A w \in DOMAIN kind \ Active :
          \A p \in DOMAIN wizards_on_board : TimesListed(w, p) = 0
    /\ \A p \in DOMAIN wizards_on_board : wizards_on_board[p] # <<>>

\* a cast has eliminated a wizard: it has left the active list and the tile it
\* stood on alone has left the occupancy map, while the caster is still listed
C36_EliminatedLeftBoard ==
    /\ last.op = "cast_spell"
    /\ \E i \in 1..Len(last.hits) :
          /\ last.hits[i].eliminated
          /\ last.hits[i].target \notin Active
          /\ location[last.hits[i].target] \notin DOMAIN wizards_on_board
    /\ last.who \in Range(wizards_on_board[location[last.who]])

C37_Defined ==
    /\ players # <<>>
    /\ current_player_index \in 0..(Len(players) - 1)

C37_Step ==
    last'.op = "cast_spell" =>
        /\ \A i \in 1..Len(last'.hits) : last'.hits[i].target # last'.who
        /\ last'.who \in Range(players')

\* C37: the active list is never empty and current_player_index is always
\* an index into it; the caster is never among the targets of its cast, so
\* it is still in the list after it, whoever else has been eliminated.
C37_CurrentPlayerDefined == []C37_Defined /\ [][C37_Step]_vars

\* a caster of a later seat has eliminated a wizard of an earlier seat: the
\* list has shrunk in front of it and the index still points at the caster
C37_ShrunkInFront ==
    /\ last.op = "cast_spell"
    /\ \E i \in 1..Len(last.hits) :
          /\ last.hits[i].eliminated
          /\ last.hits[i].target < last.who
    /\ players[current_player_index + 1] = last.who

C38_Step ==
    last'.op \in {"lay_card", "charge_card"} =>
        UNCHANGED <<current_actions, moves_used, mines_used, spells_cast>>

\* C38: laying down a card and charging a card, whether they succeed or
\* fail, leave current_actions, moves_used, mines_used and spells_cast as
\* they were, and they are still possible when the budget of the turn is used up.
C38_FreeOfCharge == [][C38_Step]_vars

\* a card has been charged after the last action of the turn was spent
C38_ChargedAfterBudget ==
    /\ last.op = "charge_card"
    /\ last.res = "True"
    /\ current_actions = max_actions_per_turn

\* a successful cast of a wizard that has no other wizard on any adjacent position
C39_CastAtNobody ==
    /\ last'.op = "cast_spell"
    /\ last'.res = "True"
    /\ cast_targets(G, last'.who) = <<>>

\* the crystals recorded on the card are back on the board: the colored ones
\* in their mines, the white ones on empty outer tiles
C39_Returned(used) ==
    /\ \A c \in Range(MineColors) : mines'[c] = Min(MineCap, mines[c] + used[c])
    /\ OnBoard("white")' =
          OnBoard("white") + Min(used["white"], Len(HexName) - OnBoard("white"))

C39_Step ==
    C39_CastAtNobody =>
        LET w == last'.who
            card == CardById(cards_laid_down[w], last'.card)
        IN  /\ UNCHANGED <<health, crystals, players>>
            /\ Len(card) = 1
            /\ CardById(cards_laid_down'[w], last'.card) = <<>>
            /\ Len(cards_laid_down'[w]) = Len(cards_laid_down[w]) - 1
            /\ C39_Returned(card[1].original_crystals_used)
            /\ IF cards # <<>> \/ discarded # <<>>
               THEN Len(hand'[w]) = Len(hand[w]) + 1
               ELSE hand'[w] = hand[w]
            /\ spells_cast' = spells_cast + 1
            /\ current_actions' = current_actions + 1

\* C39: a legal cast with no wizard on any adjacent position succeeds: no
\* health and no reserve changes, the card leaves the laid-down area, the
\* crystals charged on it are returned to the board, a replacement card is
\* drawn into the hand when the deck can supply one, and spells_cast and
\* current_actions each increase by 1.
C39_CastIntoTheVoid == [][C39_Step]_vars

\* every card of the game: in the hands, laid down, in the deck and discarded
AllCards ==
    UNION {Range(hand[w]) \cup Range(cards_laid_down[w]) : w \in DOMAIN kind}
        \cup Range(cards) \cup Range(discarded)

C40_Balanced ==
    \A card \in AllCards :
        Total(card.original_crystals_used) = KeyTotal(card.crystals_used)

C40_Step ==
    (last'.op = "cast_spell" /\ last'.res = "True") =>
        \A card \in Range(cards_laid_down[last'.who]) :
            card.id = last'.card =>
                /\ Total(card.original_crystals_used) = KeyTotal(card.cost)
                /\ Total(card.original_crystals_used) = get_damage(card)

\* C40: on every card the crystals recorded by original type
\* (original_crystals_used, over the five colors) are as many as the crystals
\* in its slots (crystals_used, over the cost keys); so the crystals that the
\* cast of a fully charged card hands back to the board, the card's
\* original_crystals_used, number the card's total cost, its damage.
C40_RecordedAsUsed == []C40_Balanced /\ [][C40_Step]_vars

\* a white crystal has completed a card in a slot of another name: the slots
\* and the record differ key by key and agree in total
C40_WhiteCompleted ==
    /\ last.op = "charge_card"
    /\ last.res = "True"
    /\ last.color = "white"
    /\ \E card \in Range(cards_laid_down[last.who]) :
          /\ card.id = last.card
          /\ is_fully_charged(card)
          /\ card.original_crystals_used["white"] > 0

=============================================================================
